---- MODULE Spec2Model ----
(***************************************************************************)
(* A model of the SAX handler of pymatgen/io/vaspio.py (VasprunHandler),   *)
(* its typed value decoders (parse_parameters, parse_v_parameters) and the *)
(* sidecar lookup (parse_from_incar).                                      *)
(*                                                                         *)
(* Text is a sequence of one-character strings.  Tag names and attribute   *)
(* values are strings drawn from the vocabulary of the report format.      *)
(* A Python exception is recorded in the field `error` of the handler and  *)
(* ends the parse.                                                         *)
(***************************************************************************)
EXTENDS Integers, Sequences, FiniteSets, TLC

(***************************************************************************)
(* Text: str.strip, re.split("\s+", .), int(.), float(.)                   *)
(***************************************************************************)
WS == {" ", "\n"}

DigitVal == [c \in {"0", "1", "2", "3", "4", "5", "6", "7", "8", "9"} |->
               CASE c = "0" -> 0 [] c = "1" -> 1 [] c = "2" -> 2 [] c = "3" -> 3
                 [] c = "4" -> 4 [] c = "5" -> 5 [] c = "6" -> 6 [] c = "7" -> 7
                 [] c = "8" -> 8 [] c = "9" -> 9]

IsDigits(s) == \A k \in 1..Len(s) : s[k] \in DOMAIN DigitVal

RECURSIVE LStrip(_)
LStrip(s) == IF s # <<>> /\ Head(s) \in WS THEN LStrip(Tail(s)) ELSE s

RECURSIVE RStrip(_)
RStrip(s) == IF s # <<>> /\ s[Len(s)] \in WS THEN RStrip(SubSeq(s, 1, Len(s) - 1)) ELSE s

\* str.strip()
Strip(s) == RStrip(LStrip(s))

\* re.split("\s+", s): the tokens between runs of whitespace; the text before
\* the first run and after the last one counts, so "" gives one empty token.
RECURSIVE SplitFrom(_, _, _)
SplitFrom(s, k, cur) ==
    IF k > Len(s) THEN <<cur>>
    ELSE IF s[k] \in WS
         THEN IF k > 1 /\ s[k - 1] \in WS
              THEN SplitFrom(s, k + 1, cur)
              ELSE <<cur>> \o SplitFrom(s, k + 1, <<>>)
         ELSE SplitFrom(s, k + 1, Append(cur, s[k]))

SplitWS(s) == SplitFrom(s, 1, <<>>)

RECURSIVE DigitsVal(_)
DigitsVal(s) == IF s = <<>> THEN 0 ELSE 10 * DigitsVal(SubSeq(s, 1, Len(s) - 1)) + DigitVal[s[Len(s)]]

Unsigned(s) == IF s # <<>> /\ Head(s) \in {"-", "+"} THEN Tail(s) ELSE s

Sign(s) == IF s # <<>> /\ Head(s) = "-" THEN -1 ELSE 1

\* int(s): an optional sign and one or more digits, whitespace around it allowed.
IntOk(s) == LET u == Unsigned(Strip(s)) IN u # <<>> /\ IsDigits(u)

IntVal(s) == Sign(Strip(s)) * DigitsVal(Unsigned(Strip(s)))

DotAt(u) == IF \E k \in 1..Len(u) : u[k] = "." THEN CHOOSE k \in 1..Len(u) : u[k] = "." /\ \A j \in 1..(k - 1) : u[j] # "."
            ELSE 0

\* float(s): sign, digits, at most one point, at least one digit.  A float is
\* held in tenths (10.5 is 105); digits after the first decimal are dropped.
FloatOk(s) ==
    LET u == Unsigned(Strip(s))
        d == DotAt(u)
        ip == IF d = 0 THEN u ELSE SubSeq(u, 1, d - 1)
        fp == IF d = 0 THEN <<>> ELSE SubSeq(u, d + 1, Len(u))
    IN  IsDigits(ip) /\ IsDigits(fp) /\ Len(ip) + Len(fp) > 0

FloatVal(s) ==
    LET u == Unsigned(Strip(s))
        d == DotAt(u)
        ip == IF d = 0 THEN u ELSE SubSeq(u, 1, d - 1)
        fp == IF d = 0 THEN <<>> ELSE SubSeq(u, d + 1, Len(u))
    IN  Sign(Strip(s)) * (10 * DigitsVal(ip) + (IF fp = <<>> THEN 0 ELSE DigitVal[fp[1]]))

\* [float(x) for x in toks] and [int(x) for x in toks]
AllFloat(toks) == \A k \in 1..Len(toks) : FloatOk(toks[k])

Floats(toks) == [k \in 1..Len(toks) |-> FloatVal(toks[k])]

AllInt(toks) == \A k \in 1..Len(toks) : IntOk(toks[k])

Ints(toks) == [k \in 1..Len(toks) |-> IntVal(toks[k])]

\* numpy: a.shape = (rows, 3) of a flat array; possible only for 3 * rows numbers.
Reshape3(flat, rows) == [r \in 1..rows |-> SubSeq(flat, 3 * r - 2, 3 * r)]

(***************************************************************************)
(* Vocabulary of the report format                                         *)
(***************************************************************************)
Tags == {"modeling", "generator", "incar", "parameters", "kpoints", "generation",
         "atominfo", "array", "set", "c", "i", "v", "varray", "calculation",
         "scstep", "structure", "dos", "total", "partial", "eigenvalues", "r", "rc"}

\* The characters of the strings that str.startswith and str.split are applied
\* to: str(state["set"]), which is "True", "False" or a set's comment.
Spell == [s \in {"True", "False", "spin 1", "spin 2", "spin 3", "kpoint 1", "kpoint 2", "ion 1", "ion 2"} |->
            CASE s = "True" -> <<"T", "r", "u", "e">>
              [] s = "False" -> <<"F", "a", "l", "s", "e">>
              [] s = "spin 1" -> <<"s", "p", "i", "n", " ", "1">>
              [] s = "spin 2" -> <<"s", "p", "i", "n", " ", "2">>
              [] s = "spin 3" -> <<"s", "p", "i", "n", " ", "3">>
              [] s = "kpoint 1" -> <<"k", "p", "o", "i", "n", "t", " ", "1">>
              [] s = "kpoint 2" -> <<"k", "p", "o", "i", "n", "t", " ", "2">>
              [] s = "ion 1" -> <<"i", "o", "n", " ", "1">>
              [] s = "ion 2" -> <<"i", "o", "n", " ", "2">>]

\* str(v).startswith(prefix), prefix given by its characters
StartsWith(v, prefix) ==
    /\ v \in DOMAIN Spell
    /\ Len(Spell[v]) >= Len(prefix)
    /\ SubSeq(Spell[v], 1, Len(prefix)) = prefix

PSpin == <<"s", "p", "i", "n">>
PKpoint == <<"k", "p", "o", "i", "n", "t">>
PIon == <<"i", "o", "n">>

\* comment.split(" ")[1]: the text between the first and the second blank
RECURSIVE UpToBlank(_)
UpToBlank(s) == IF s = <<>> \/ Head(s) = " " THEN <<>> ELSE <<Head(s)>> \o UpToBlank(Tail(s))

HasSecondField(v) == \E k \in 1..Len(Spell[v]) : Spell[v][k] = " "

SecondField(v) ==
    LET t == Spell[v]
        k == CHOOSE j \in 1..Len(t) : t[j] = " " /\ \A m \in 1..(j - 1) : t[m] # " "
    IN  UpToBlank(SubSeq(t, k + 1, Len(t)))

\* Spin.up if state["set"] == "spin 1" else Spin.down
SpinOf(v) == IF v = "spin 1" THEN "up" ELSE "down"

\* Python truth of a value of the context mapping: False and "" are false.
Truthy(v) == v \notin {"False", ""}

(***************************************************************************)
(* Dictionaries: functions on the set of keys present                      *)
(***************************************************************************)
EmptyDict == [k \in {} |-> 0]

Put(d, key, val) == [k \in (DOMAIN d) \cup {key} |-> IF k = key THEN val ELSE d[k]]

Last(s) == s[Len(s)]

(***************************************************************************)
(* VasprunHandler.__init__                                                 *)
(* None is the empty sequence and a value v is <<v>> in the fields that    *)
(* may hold None.  `defined` holds the attributes that exist only once     *)
(* they have been assigned; reading another one is an AttributeError.      *)
(***************************************************************************)
Kpoints == [l1_comment |-> "Default", l2_gen_style |-> "0", l3_lattice |-> "Gamma", kpts |-> <<1, 1, 1>>]

HandlerInit(filename) ==
    [filename |-> filename,
     vasp_version |-> <<>>,
     incar |-> EmptyDict,
     parameters |-> EmptyDict,
     potcar_symbols |-> <<>>,
     atomic_symbols |-> <<>>,
     kpoints |-> Kpoints,
     actual_kpoints |-> <<>>,
     actual_kpoints_weights |-> <<>>,
     dos_energies |-> <<>>,
     eigenvalues |-> EmptyDict,
     tdos |-> [dict |-> EmptyDict],
     idos |-> [dict |-> EmptyDict],
     pdos |-> [dict |-> EmptyDict],
     efermi |-> <<>>,
     ionic_steps |-> <<>>,
     structures |-> <<>>,
     input_read |-> FALSE,
     all_calculations_read |-> FALSE,
     read_structure |-> FALSE,
     read_calculation |-> FALSE,
     read_eigen |-> FALSE,
     read_dos |-> FALSE,
     in_efermi |-> FALSE,
     read_atoms |-> FALSE,
     read_lattice |-> FALSE,
     read_positions |-> FALSE,
     incar_param |-> <<>>,
     dos_energies_val |-> <<>>,
     dos_val |-> <<>>,
     idos_val |-> <<>>,
     raw_data |-> <<>>,
     state |-> [t \in Tags |-> "False"],
     \* assigned later
     defined |-> {},
     read_val |-> FALSE,
     val |-> <<>>,
     param_type |-> "float",
     scdata |-> <<>>,
     scstep |-> EmptyDict,
     latticestr |-> <<>>,
     posstr |-> <<>>,
     forces |-> <<>>,
     stress |-> <<>>,
     lattice |-> <<>>,
     pos |-> <<>>,
     eigen_spin |-> "up",
     eigen_kpoint |-> 0,
     pdos_ion |-> 0,
     pdos_spin |-> "up",
     norbitals |-> 0,
     \* the exception that ended the parse, "None" while there is none
     error |-> "None"]

Fail(h, kind) == [h EXCEPT !.error = kind]

Def(h, names) == [h EXCEPT !.defined = @ \cup names]

(***************************************************************************)
(* VasprunHandler.startElement                                             *)
(***************************************************************************)
\* lines 828-842: reading input parameters
StartInput(h, name, attributes) ==
    IF name \in {"i", "v"} /\ (Truthy(h.state["incar"]) \/ Truthy(h.state["parameters"]))
    THEN IF "name" \notin DOMAIN attributes THEN Fail(h, "KeyError")
         ELSE Def([h EXCEPT !.incar_param = <<attributes["name"]>>,
                            !.param_type = IF "type" \in DOMAIN attributes THEN attributes["type"] ELSE "float",
                            !.read_val = TRUE], {"param_type"})
    ELSE IF name = "v" /\ Truthy(h.state["kpoints"])
    THEN [h EXCEPT !.read_val = TRUE]
    ELSE IF name = "generation" /\ Truthy(h.state["kpoints"])
    THEN IF "param" \notin DOMAIN attributes THEN Fail(h, "KeyError")
         ELSE [h EXCEPT !.kpoints = [l1_comment |-> "K point data read from vasprun.xml",
                                     l2_gen_style |-> "-1",
                                     l3_lattice |-> attributes["param"],
                                     kpts |-> h.kpoints.kpts]]
    ELSE IF name = "c" /\ h.state["array"] \in {"atoms", "atomtypes"}
    THEN [h EXCEPT !.read_val = TRUE]
    ELSE IF name = "i" /\ h.state["i"] = "version" /\ Truthy(h.state["generator"])
    THEN [h EXCEPT !.read_val = TRUE]
    ELSE h

\* lines 845-854: leaves of a calculation or structure section
StartLeaf(h, name) ==
    LET a == IF h.read_calculation
             THEN IF name = "i" /\ Truthy(h.state["scstep"]) THEN [h EXCEPT !.read_val = TRUE]
                  ELSE IF name = "v" /\ h.state["varray"] \in {"forces", "stress"}
                       THEN [h EXCEPT !.read_positions = TRUE]
                       ELSE h
             ELSE h
    IN  IF a.read_structure
        THEN IF name = "v" /\ a.state["varray"] = "basis" THEN [a EXCEPT !.read_lattice = TRUE]
             ELSE IF name = "v" /\ a.state["varray"] = "positions" THEN [a EXCEPT !.read_positions = TRUE]
                  ELSE a
        ELSE a

\* StartSection with the list of convergence iterations kept across
\* calculation sections (line 856 left out)
StartSectionKeepsScdata(h, name) ==
    IF name = "calculation"
    THEN Def([h EXCEPT !.read_calculation = TRUE], {"scdata"})
    ELSE IF name = "scstep"
    THEN Def([h EXCEPT !.scstep = EmptyDict], {"scstep"})
    ELSE IF name = "structure"
    THEN Def([h EXCEPT !.latticestr = <<>>, !.posstr = <<>>, !.read_structure = TRUE], {"latticestr", "posstr"})
    ELSE IF name = "varray" /\ h.state["varray"] \in {"forces", "stress"}
    THEN Def([h EXCEPT !.posstr = <<>>], {"posstr"})
    ELSE IF name = "eigenvalues"
    THEN [h EXCEPT !.all_calculations_read = TRUE]
    ELSE h

\* StartSection ending the parse at the start of the eigenvalues section
StartSectionStops(h, name) ==
    IF name = "calculation"
    THEN Def([h EXCEPT !.scdata = <<>>, !.read_calculation = TRUE], {"scdata"})
    ELSE IF name = "scstep"
    THEN Def([h EXCEPT !.scstep = EmptyDict], {"scstep"})
    ELSE IF name = "structure"
    THEN Def([h EXCEPT !.latticestr = <<>>, !.posstr = <<>>, !.read_structure = TRUE], {"latticestr", "posstr"})
    ELSE IF name = "varray" /\ h.state["varray"] \in {"forces", "stress"}
    THEN Def([h EXCEPT !.posstr = <<>>], {"posstr"})
    ELSE IF name = "eigenvalues"
    THEN Fail([h EXCEPT !.all_calculations_read = TRUE], "SAXException")
    ELSE h

\* lines 855-868: section starts
StartSection(h, name) ==
    IF name = "calculation"
    THEN Def([h EXCEPT !.scdata = <<>>, !.read_calculation = TRUE], {"scdata"})
    ELSE IF name = "scstep"
    THEN Def([h EXCEPT !.scstep = EmptyDict], {"scstep"})
    ELSE IF name = "structure"
    THEN Def([h EXCEPT !.latticestr = <<>>, !.posstr = <<>>, !.read_structure = TRUE], {"latticestr", "posstr"})
    ELSE IF name = "varray" /\ h.state["varray"] \in {"forces", "stress"}
    THEN Def([h EXCEPT !.posstr = <<>>], {"posstr"})
    ELSE IF name = "eigenvalues"
    THEN [h EXCEPT !.all_calculations_read = TRUE]
    ELSE h

\* StartEigenSet leaving the plain true in the context
StartEigenSetKeepsTrue(h, comment) ==
    LET b == IF StartsWith(comment, PSpin)
             THEN Def([h EXCEPT !.eigen_spin = SpinOf(comment)], {"eigen_spin"})
             ELSE h
    IN  IF StartsWith(comment, PKpoint)
        THEN IF ~HasSecondField(comment) THEN Fail(b, "IndexError")
             ELSE IF ~IntOk(SecondField(comment)) THEN Fail(b, "ValueError")
             ELSE Def([b EXCEPT !.eigen_kpoint = IntVal(SecondField(comment))], {"eigen_kpoint"})
        ELSE b

\* lines 872-878: a labelled set of the eigenvalues section
StartEigenSet(h, comment) ==
    LET a == [h EXCEPT !.state["set"] = comment]
        b == IF StartsWith(comment, PSpin)
             THEN Def([a EXCEPT !.eigen_spin = SpinOf(comment)], {"eigen_spin"})
             ELSE a
    IN  IF StartsWith(comment, PKpoint)
        THEN IF ~HasSecondField(comment) THEN Fail(b, "IndexError")
             ELSE IF ~IntOk(SecondField(comment)) THEN Fail(b, "ValueError")
             ELSE Def([b EXCEPT !.eigen_kpoint = IntVal(SecondField(comment))], {"eigen_kpoint"})
        ELSE b

\* lines 882-889: a labelled set of the dos section
StartDosSet(h, comment) ==
    LET a == [h EXCEPT !.state["set"] = comment]
    IN  IF Truthy(a.state["partial"])
        THEN IF StartsWith(comment, PIon)
             THEN IF ~HasSecondField(comment) THEN Fail(a, "IndexError")
                  ELSE IF ~IntOk(SecondField(comment)) THEN Fail(a, "ValueError")
                  ELSE Def([a EXCEPT !.pdos_ion = IntVal(SecondField(comment))], {"pdos_ion"})
             ELSE IF StartsWith(comment, PSpin)
                  THEN Def([a EXCEPT !.pdos_spin = SpinOf(comment)], {"pdos_spin"})
                  ELSE a
        ELSE a

\* StartDosEigen keeping what an earlier section has left
StartDosEigenKeeps(h, name, attributes) ==
    IF h.read_eigen
    THEN IF name = "r" /\ Truthy(h.state["set"]) THEN [h EXCEPT !.read_val = TRUE]
         ELSE IF name = "set" /\ "comment" \in DOMAIN attributes THEN StartEigenSet(h, attributes["comment"])
              ELSE h
    ELSE IF h.read_dos
    THEN IF (name = "i" /\ h.state["i"] = "efermi") \/ (name = "r" /\ Truthy(h.state["set"]))
         THEN [h EXCEPT !.read_val = TRUE]
         ELSE IF name = "set" /\ "comment" \in DOMAIN attributes THEN StartDosSet(h, attributes["comment"])
              ELSE h
    ELSE IF name = "dos"
    THEN [h EXCEPT !.tdos = [dict |-> IF DOMAIN @ = {"dict"} THEN @.dict ELSE @.densities.dict],
                   !.idos = [dict |-> IF DOMAIN @ = {"dict"} THEN @.dict ELSE @.densities.dict],
                   !.read_dos = TRUE]
    ELSE IF name = "eigenvalues"
    THEN [h EXCEPT !.read_eigen = TRUE]
    ELSE h

\* lines 869-899: eigenvalues and dos
StartDosEigen(h, name, attributes) ==
    IF h.read_eigen
    THEN IF name = "r" /\ Truthy(h.state["set"]) THEN [h EXCEPT !.read_val = TRUE]
         ELSE IF name = "set" /\ "comment" \in DOMAIN attributes THEN StartEigenSet(h, attributes["comment"])
              ELSE h
    ELSE IF h.read_dos
    THEN IF (name = "i" /\ h.state["i"] = "efermi") \/ (name = "r" /\ Truthy(h.state["set"]))
         THEN [h EXCEPT !.read_val = TRUE]
         ELSE IF name = "set" /\ "comment" \in DOMAIN attributes THEN StartDosSet(h, attributes["comment"])
              ELSE h
    ELSE IF name = "dos"
    THEN [h EXCEPT !.dos_energies = <<>>, !.tdos = [dict |-> EmptyDict], !.idos = [dict |-> EmptyDict],
                   !.pdos = [dict |-> EmptyDict], !.efermi = <<>>, !.read_dos = TRUE]
    ELSE IF name = "eigenvalues"
    THEN [h EXCEPT !.eigenvalues = EmptyDict, !.read_eigen = TRUE]
    ELSE h

\* lines 822-902
startElement(h, name, attributes) ==
    LET a == Def([h EXCEPT !.state[name] = IF "name" \in DOMAIN attributes THEN attributes["name"] ELSE "True",
                           !.read_val = FALSE], {"read_val"})
        b == IF ~a.input_read THEN StartInput(a, name, attributes)
             ELSE StartDosEigen(StartSection(StartLeaf(a, name), name), name, attributes)
    IN  IF b.error = "None" /\ b.read_val THEN Def([b EXCEPT !.val = <<>>], {"val"}) ELSE b

(***************************************************************************)
(* VasprunHandler.characters, lines 904-910                                *)
(***************************************************************************)
\* characters keeping only the fragment that came last
charactersLastOnly(h, data) ==
    IF "read_val" \notin h.defined THEN Fail(h, "AttributeError")
    ELSE LET a == IF h.read_val THEN [h EXCEPT !.val = data] ELSE h
         IN  IF a.read_lattice
             THEN IF "latticestr" \in a.defined THEN [a EXCEPT !.latticestr = @ \o data] ELSE Fail(a, "AttributeError")
             ELSE IF a.read_positions
                  THEN IF "posstr" \in a.defined THEN [a EXCEPT !.posstr = @ \o data] ELSE Fail(a, "AttributeError")
                  ELSE a

characters(h, data) ==
    IF "read_val" \notin h.defined THEN Fail(h, "AttributeError")
    ELSE LET a == IF h.read_val THEN [h EXCEPT !.val = @ \o data] ELSE h
         IN  IF a.read_lattice
             THEN IF "latticestr" \in a.defined THEN [a EXCEPT !.latticestr = @ \o data] ELSE Fail(a, "AttributeError")
             ELSE IF a.read_positions
                  THEN IF "posstr" \in a.defined THEN [a EXCEPT !.posstr = @ \o data] ELSE Fail(a, "AttributeError")
                  ELSE a

(***************************************************************************)
(* The sidecar lookup and the typed value decoders.  A file name is the    *)
(* sequence of its path components; `listing` is what os.listdir gives for *)
(* the directory that holds the report: a sequence of files, each with its *)
(* name (characters) and the parameters Incar.from_file reads from it.     *)
(* A decoder gives [ok |-> TRUE, value |-> v] or [ok |-> FALSE, error |-> e]. *)
(***************************************************************************)
Ok(v) == [ok |-> TRUE, value |-> v]

Err(e) == [ok |-> FALSE, error |-> e]

\* Returned by parse_from_incar when it has no value
None == [none |-> TRUE]

\* os.path.dirname
Dirname(filename) == SubSeq(filename, 1, Len(filename) - 1)

\* re.search(pat, s)
Search(pat, s) == \E k \in 1..(Len(s) - Len(pat) + 1) : SubSeq(s, k, k + Len(pat) - 1) = pat

INCAR == <<"I", "N", "C", "A", "R">>

\* lines 1067-1077.  os.listdir("") raises OSError; the first file whose name
\* holds INCAR decides.
parse_from_incar(listing, filename, key) ==
    IF Dirname(filename) = <<>> THEN Err("OSError")
    ELSE IF \E k \in 1..Len(listing) : Search(INCAR, listing[k].name)
         THEN LET f == listing[CHOOSE k \in 1..Len(listing) :
                                 /\ Search(INCAR, listing[k].name)
                                 /\ \A j \in 1..(k - 1) : ~Search(INCAR, listing[j].name)]
              IN  IF key \in DOMAIN f.incar THEN Ok(f.incar[key]) ELSE Ok(None)
         ELSE Ok(None)

\* parse_parameters reading a text that is no number as 0
parse_parametersLenient(val_type, val) ==
    IF val_type = "logical" THEN Ok([bool |-> (val = <<"T">>)])
    ELSE IF val_type = "int" THEN (IF IntOk(val) THEN Ok([int |-> IntVal(val)]) ELSE Ok([int |-> 0]))
    ELSE IF val_type = "string" THEN Ok([str |-> Strip(val)])
    ELSE IF FloatOk(val) THEN Ok([float |-> FloatVal(val)]) ELSE Ok([float |-> 0])

\* lines 1032-1040
parse_parameters(val_type, val) ==
    IF val_type = "logical" THEN Ok([bool |-> (val = <<"T">>)])
    ELSE IF val_type = "int" THEN (IF IntOk(val) THEN Ok([int |-> IntVal(val)]) ELSE Err("ValueError"))
    ELSE IF val_type = "string" THEN Ok([str |-> Strip(val)])
    ELSE IF FloatOk(val) THEN Ok([float |-> FloatVal(val)]) ELSE Err("ValueError")

\* FromIncar handing on the absent value instead of raising IOError
FromIncarKeepsNone(listing, filename, param_name) ==
    parse_from_incar(listing, filename, param_name)

\* lines 1051-1053 and 1062-1064
FromIncar(listing, filename, param_name) ==
    LET r == parse_from_incar(listing, filename, param_name)
    IN  IF ~r.ok THEN r
        ELSE IF r.value = None THEN Err("IOError")
        ELSE r

\* lines 1042-1065
parse_v_parameters(val_type, val, filename, param_name, listing) ==
    LET toks == SplitWS(val)
    IN  IF val_type = "logical" THEN Ok([bools |-> [k \in 1..Len(toks) |-> toks[k] = <<"T">>]])
        ELSE IF val_type = "int"
             THEN IF AllInt(toks) THEN Ok([ints |-> Ints(toks)])
                  ELSE FromIncar(listing, filename, param_name)
        ELSE IF val_type = "string" THEN Ok([strs |-> toks])
        ELSE IF AllFloat(toks) THEN Ok([floats |-> Floats(toks)])
             ELSE FromIncar(listing, filename, param_name)

(***************************************************************************)
(* VasprunHandler.endElement                                               *)
(***************************************************************************)
\* Incar.proc_val, lines 328-365, of a text value
list_type_keys == {"LDAUU", "LDAUL", "LDAUJ", "LDAUTYPE", "MAGMOM"}
boolean_type_keys == {"LDAU", "LWAVE"}
number_type_keys == {"NSW", "NELMIN", "ISIF", "IBRION", "ISPIN", "EDIFF", "ICHARG", "NELM", "ISMEAR",
                     "NPAR", "SIGMA", "LDAUPRINT", "LMAXMIX"}

\* smart_int_or_float, lines 334-338
SmartOk(numstr) == IF DotAt(numstr) # 0 THEN FloatOk(numstr) ELSE IntOk(numstr)

Smart(numstr) == IF DotAt(numstr) # 0 THEN [float |-> FloatVal(numstr)] ELSE [int |-> IntVal(numstr)]

RECURSIVE TakeWhile(_, _)
TakeWhile(s, set) == IF s # <<>> /\ Head(s) \in set THEN <<Head(s)>> \o TakeWhile(Tail(s), set) ELSE <<>>

\* re.match("(\d+)\*([\d\.\-\+]+)", tok): the two groups, or <<>>
Repeat(tok) ==
    LET n == TakeWhile(tok, DOMAIN DigitVal)
        rest == SubSeq(tok, Len(n) + 1, Len(tok))
        x == IF rest # <<>> /\ Head(rest) = "*"
             THEN TakeWhile(Tail(rest), (DOMAIN DigitVal) \cup {".", "-", "+"})
             ELSE <<>>
    IN  IF n # <<>> /\ x # <<>> THEN <<n, x>> ELSE <<>>

TokOk(tok) == IF Repeat(tok) # <<>> THEN SmartOk(Repeat(tok)[2]) ELSE SmartOk(tok)

TokVals(tok) ==
    IF Repeat(tok) # <<>> THEN [k \in 1..DigitsVal(Repeat(tok)[1]) |-> Smart(Repeat(tok)[2])]
    ELSE <<Smart(tok)>>

RECURSIVE Flatten(_)
Flatten(ss) == IF ss = <<>> THEN <<>> ELSE Head(ss) \o Flatten(Tail(ss))

Letters == {"A", "B", "C", "D", "E", "F", "G", "H", "I", "J", "K", "L", "M", "N", "O", "P", "Q", "R", "S",
            "T", "U", "V", "W", "X", "Y", "Z", "a", "b", "c", "d", "e", "f", "g", "h", "i", "j", "k", "l",
            "m", "n", "o", "p", "q", "r", "s", "t", "u", "v", "w", "x", "y", "z"}

\* \w of the re module
IsWord(c) == c \in (DOMAIN DigitVal) \cup Letters \cup {"_"}

proc_val(key, val) ==
    LET toks == SplitWS(val)
        nw == TakeWhile(val, {c \in {val[k] : k \in 1..Len(val)} : ~IsWord(c)})
        m == IF nw # <<>> /\ Len(val) > Len(nw) /\ val[Len(nw) + 1] \in {"T", "t", "F", "f"}
             THEN <<val[Len(nw) + 1]>> ELSE <<>>
    IN  IF key \in list_type_keys
        THEN IF \A k \in 1..Len(toks) : TokOk(toks[k])
             THEN [nums |-> Flatten([k \in 1..Len(toks) |-> TokVals(toks[k])])]
             ELSE [str |-> val]
        ELSE IF key \in boolean_type_keys
        THEN IF m # <<>> THEN [bool |-> m[1] \in {"T", "t"}] ELSE [str |-> val]
        ELSE IF key \in number_type_keys
        THEN IF SmartOk(val) THEN Smart(val) ELSE [str |-> val]
        ELSE [str |-> val]

\* Incar.__setitem__, line 288: a text value goes through proc_val
SetItem(incar, key, value) ==
    Put(incar, key, IF DOMAIN value = {"str"} THEN proc_val(key, Strip(value.str)) ELSE value)

\* The character buffer of the leaf, self.val.getvalue()
ValOf(h) == IF "val" \in h.defined THEN Ok(h.val) ELSE Err("AttributeError")

\* Store putting every parameter in the table of the incar section
StoreInDeclared(h, table, r) ==
    IF ~r.ok THEN Fail(h, r.error)
    ELSE IF h.incar_param = <<>> THEN Fail(h, "AttributeError")
    ELSE [h EXCEPT !.incar = SetItem(@, h.incar_param[1], r.value)]

\* self.incar[self.incar_param] = value, self.parameters[...] = value
Store(h, table, r) ==
    IF ~r.ok THEN Fail(h, r.error)
    ELSE IF h.incar_param = <<>> THEN Fail(h, "AttributeError")
    ELSE IF table = "incar" THEN [h EXCEPT !.incar = SetItem(@, h.incar_param[1], r.value)]
    ELSE [h EXCEPT !.parameters = SetItem(@, h.incar_param[1], r.value)]

ResetParam(h) == IF h.error = "None" THEN [h EXCEPT !.incar_param = <<>>] ELSE h

\* lines 918-925
EndInputI(h) ==
    IF Truthy(h.state["incar"]) \/ Truthy(h.state["parameters"])
    THEN IF ~ValOf(h).ok \/ "param_type" \notin h.defined THEN Fail(h, "AttributeError")
         ELSE ResetParam(Store(h, IF Truthy(h.state["incar"]) THEN "incar" ELSE "parameters",
                               parse_parameters(h.param_type, Strip(h.val))))
    ELSE IF Truthy(h.state["generator"]) /\ h.state["i"] = "version"
         THEN IF ~ValOf(h).ok THEN Fail(h, "AttributeError")
              ELSE ResetParam([h EXCEPT !.vasp_version = <<Strip(h.val)>>])
         ELSE ResetParam(h)

\* EL_MAPPINGS without an entry
EL_MAPPINGSEmpty(sym) == sym

\* lines 926-932
EL_MAPPINGS(sym) == IF sym = <<"X">> THEN <<"X", "e">> ELSE sym

EveryFrom(s, first, step) ==
    [k \in 1..(IF Len(s) < first THEN 0 ELSE (Len(s) - first) \div step + 1) |-> s[first + (k - 1) * step]]

\* EndInputSet taking the first, the sixth ... entry of the list of atom types
EndInputSetFromFirst(h) ==
    IF h.state["array"] = "atoms"
    THEN [h EXCEPT !.atomic_symbols = [k \in 1..Len(EveryFrom(@, 1, 2)) |-> EL_MAPPINGS(EveryFrom(@, 1, 2)[k])]]
    ELSE IF h.state["array"] = "atomtypes"
         THEN [h EXCEPT !.potcar_symbols = EveryFrom(@, 1, 5), !.input_read = TRUE]
         ELSE h

\* EndInputSet keeping every entry of the list of atoms
EndInputSetKeepsAll(h) ==
    IF h.state["array"] = "atoms"
    THEN [h EXCEPT !.atomic_symbols = [k \in 1..Len(@) |-> EL_MAPPINGS(@[k])]]
    ELSE IF h.state["array"] = "atomtypes"
         THEN [h EXCEPT !.potcar_symbols = EveryFrom(@, 5, 5), !.input_read = TRUE]
         ELSE h

EndInputSet(h) ==
    IF h.state["array"] = "atoms"
    THEN [h EXCEPT !.atomic_symbols = [k \in 1..Len(EveryFrom(@, 1, 2)) |-> EL_MAPPINGS(EveryFrom(@, 1, 2)[k])]]
    ELSE IF h.state["array"] = "atomtypes"
         THEN [h EXCEPT !.potcar_symbols = EveryFrom(@, 5, 5), !.input_read = TRUE]
         ELSE h

\* EndInputC ending the input phase at the first entry of the list of atoms
EndInputCEndsInput(h) ==
    IF h.state["array"] \in {"atoms", "atomtypes"}
    THEN IF ~ValOf(h).ok THEN Fail(h, "AttributeError")
         ELSE IF h.state["array"] = "atoms"
              THEN [h EXCEPT !.atomic_symbols = Append(@, Strip(h.val)), !.input_read = TRUE]
         ELSE [h EXCEPT !.potcar_symbols = Append(@, Strip(h.val))]
    ELSE h

\* lines 933-937
EndInputC(h) ==
    IF h.state["array"] \in {"atoms", "atomtypes"}
    THEN IF ~ValOf(h).ok THEN Fail(h, "AttributeError")
         ELSE IF h.state["array"] = "atoms" THEN [h EXCEPT !.atomic_symbols = Append(@, Strip(h.val))]
         ELSE [h EXCEPT !.potcar_symbols = Append(@, Strip(h.val))]
    ELSE h

\* EndKpointsV keeping one of the two: the mesh drops the list and the
\* weights, a k-point or a weight puts the mesh back to its default
EndKpointsVExclusive(h) ==
    LET toks == SplitWS(Strip(h.val))
        a == IF h.state["varray"] = "kpointlist"
             THEN IF ~ValOf(h).ok THEN Fail(h, "AttributeError")
                  ELSE IF AllFloat(toks)
                       THEN [h EXCEPT !.actual_kpoints = Append(@, Floats(toks)), !.kpoints.kpts = Kpoints.kpts]
                  ELSE Fail(h, "ValueError")
             ELSE h
        b == IF a.error = "None" /\ a.state["varray"] = "weights"
             THEN IF ~ValOf(h).ok THEN Fail(h, "AttributeError")
                  ELSE IF FloatOk(a.val)
                       THEN [a EXCEPT !.actual_kpoints_weights = Append(@, FloatVal(a.val)), !.kpoints.kpts = Kpoints.kpts]
                  ELSE Fail(a, "ValueError")
             ELSE a
    IN  IF b.error = "None" /\ b.state["v"] = "divisions"
        THEN IF ~ValOf(h).ok THEN Fail(h, "AttributeError")
             ELSE IF AllInt(toks)
                  THEN [b EXCEPT !.kpoints.kpts = Ints(toks), !.actual_kpoints = <<>>, !.actual_kpoints_weights = <<>>]
                  ELSE Fail(b, "ValueError")
        ELSE b

\* lines 944-950
EndKpointsV(h) ==
    LET toks == SplitWS(Strip(h.val))
        a == IF h.state["varray"] = "kpointlist"
             THEN IF ~ValOf(h).ok THEN Fail(h, "AttributeError")
                  ELSE IF AllFloat(toks) THEN [h EXCEPT !.actual_kpoints = Append(@, Floats(toks))]
                  ELSE Fail(h, "ValueError")
             ELSE h
        b == IF a.error = "None" /\ a.state["varray"] = "weights"
             THEN IF ~ValOf(h).ok THEN Fail(h, "AttributeError")
                  ELSE IF FloatOk(a.val) THEN [a EXCEPT !.actual_kpoints_weights = Append(@, FloatVal(a.val))]
                  ELSE Fail(a, "ValueError")
             ELSE a
    IN  IF b.error = "None" /\ b.state["v"] = "divisions"
        THEN IF ~ValOf(h).ok THEN Fail(h, "AttributeError")
             ELSE IF AllInt(toks) THEN [b EXCEPT !.kpoints.kpts = Ints(toks)] ELSE Fail(b, "ValueError")
        ELSE b

\* lines 938-950
EndInputV(h, listing) ==
    IF Truthy(h.state["incar"]) \/ Truthy(h.state["parameters"])
    THEN IF ~ValOf(h).ok \/ "param_type" \notin h.defined THEN Fail(h, "AttributeError")
         ELSE LET r == IF h.incar_param = <<>> THEN Err("AttributeError")
                       ELSE parse_v_parameters(h.param_type, Strip(h.val), h.filename, h.incar_param[1], listing)
              IN  IF Truthy(h.state["incar"]) THEN ResetParam(Store(h, "incar", r))
                  ELSE Store(h, "parameters", r)
    ELSE IF Truthy(h.state["kpoints"]) THEN EndKpointsV(h)
    ELSE h

\* lines 917-950
EndInput(h, name, listing) ==
    IF name = "i" THEN EndInputI(h)
    ELSE IF name = "set" THEN EndInputSet(h)
    ELSE IF name = "c" THEN EndInputC(h)
    ELSE IF name = "v" THEN EndInputV(h, listing)
    ELSE h

\* Matrix taking the number of rows from the text: as many rows as there are
\* triples of numbers
MatrixOfText(text, rows) ==
    LET toks == SplitWS(Strip(text))
    IN  IF ~AllFloat(toks) THEN Err("ValueError")
        ELSE Ok(Reshape3(Floats(toks), Len(toks) \div 3))

\* [float(x) for x in re.split("\s+", text.strip())], then .shape = (rows, 3)
Matrix(text, rows) ==
    LET toks == SplitWS(Strip(text))
    IN  IF ~AllFloat(toks) THEN Err("ValueError")
        ELSE IF Len(toks) # 3 * rows THEN Err("ValueError")
        ELSE Ok(Reshape3(Floats(toks), rows))

\* line 964
EndCalculation(h) ==
    IF h.structures = <<>> THEN Fail(h, "IndexError")
    ELSE IF ~({"forces", "stress"} \subseteq h.defined) THEN Fail(h, "AttributeError")
    ELSE [h EXCEPT !.ionic_steps = Append(@, [electronic_steps |-> h.scdata,
                                              structure |-> Last(h.structures),
                                              forces |-> h.forces,
                                              stress |-> h.stress]),
                   !.read_calculation = FALSE]

\* EndForces with the shape transposed: (3, N) for (N, 3)
EndForcesTransposed(h) ==
    IF "posstr" \notin h.defined THEN Fail(h, "AttributeError")
    ELSE LET m == Matrix(h.posstr, Len(h.atomic_symbols))
         IN  IF m.ok THEN Def([h EXCEPT !.forces = [r \in 1..3 |-> [k \in 1..Len(m.value) |-> m.value[k][r]]]], {"forces"})
             ELSE Fail(h, m.error)

\* lines 957-962
EndForces(h) ==
    IF "posstr" \notin h.defined THEN Fail(h, "AttributeError")
    ELSE LET m == Matrix(h.posstr, Len(h.atomic_symbols))
         IN  IF m.ok THEN Def([h EXCEPT !.forces = m.value], {"forces"}) ELSE Fail(h, m.error)

EndStress(h) ==
    IF "posstr" \notin h.defined THEN Fail(h, "AttributeError")
    ELSE LET m == Matrix(h.posstr, 3)
         IN  IF m.ok THEN Def([h EXCEPT !.stress = m.value], {"stress"}) ELSE Fail(h, m.error)

\* EndInCalculation storing the energy of an scstep under the name of the
\* section
EndInCalculationByTag(h, name) ==
    IF ~h.read_calculation THEN h
    ELSE IF name = "i" /\ Truthy(h.state["scstep"])
    THEN IF ~ValOf(h).ok THEN Fail(h, "AttributeError")
         ELSE IF ~FloatOk(h.val) THEN Fail(h, "ValueError")
         ELSE IF "scstep" \notin h.defined THEN Fail(h, "AttributeError")
         ELSE [h EXCEPT !.scstep = Put(@, h.state["scstep"], FloatVal(h.val))]
    ELSE IF name = "scstep"
    THEN IF "scstep" \notin h.defined THEN Fail(h, "AttributeError")
         ELSE [h EXCEPT !.scdata = Append(@, h.scstep)]
    ELSE IF name = "varray" /\ h.state["varray"] = "forces" THEN EndForces(h)
    ELSE IF name = "varray" /\ h.state["varray"] = "stress" THEN EndStress(h)
    ELSE IF name = "calculation" THEN EndCalculation(h)
    ELSE h

\* lines 952-965
EndInCalculation(h, name) ==
    IF ~h.read_calculation THEN h
    ELSE IF name = "i" /\ Truthy(h.state["scstep"])
    THEN IF ~ValOf(h).ok THEN Fail(h, "AttributeError")
         ELSE IF ~FloatOk(h.val) THEN Fail(h, "ValueError")
         ELSE IF "scstep" \notin h.defined THEN Fail(h, "AttributeError")
         ELSE [h EXCEPT !.scstep = Put(@, h.state["i"], FloatVal(h.val))]
    ELSE IF name = "scstep"
    THEN IF "scstep" \notin h.defined THEN Fail(h, "AttributeError")
         ELSE [h EXCEPT !.scdata = Append(@, h.scstep)]
    ELSE IF name = "varray" /\ h.state["varray"] = "forces" THEN EndForces(h)
    ELSE IF name = "varray" /\ h.state["varray"] = "stress" THEN EndStress(h)
    ELSE IF name = "calculation" THEN EndCalculation(h)
    ELSE h

\* Structure(lattice, species, coords) of pymatgen.core.structure
Structure(lattice, species, coords) == [lattice |-> lattice, species |-> species, coords |-> coords]

\* EndStructure keeping only the structure read last
EndStructureReplaces(h) ==
    LET l == Matrix(h.latticestr, 3)
        p == Matrix(h.posstr, Len(h.atomic_symbols))
    IN  IF ~l.ok THEN Fail(h, l.error)
        ELSE IF ~p.ok THEN Fail(h, p.error)
        ELSE Def([h EXCEPT !.lattice = l.value, !.pos = p.value,
                           !.structures = <<Structure(l.value, h.atomic_symbols, p.value)>>,
                           !.read_structure = FALSE], {"lattice", "pos"})

\* lines 970-976
EndStructure(h) ==
    LET l == Matrix(h.latticestr, 3)
        p == Matrix(h.posstr, Len(h.atomic_symbols))
    IN  IF ~l.ok THEN Fail(h, l.error)
        ELSE IF ~p.ok THEN Fail(h, p.error)
        ELSE Def([h EXCEPT !.lattice = l.value, !.pos = p.value,
                           !.structures = Append(@, Structure(l.value, h.atomic_symbols, p.value)),
                           !.read_structure = FALSE], {"lattice", "pos"})

\* lines 980-987: a row of the total or of the partial dos
EndTotalRow(h) ==
    LET tok == SplitWS(Strip(h.val))
    IN  IF ~ValOf(h).ok THEN Fail(h, "AttributeError")
        ELSE IF ~FloatOk(tok[1]) THEN Fail(h, "ValueError")
        ELSE IF Len(tok) < 2 THEN Fail(h, "IndexError")
        ELSE IF ~FloatOk(tok[2]) THEN Fail(h, "ValueError")
        ELSE IF Len(tok) < 3 THEN Fail(h, "IndexError")
        ELSE IF ~FloatOk(tok[3]) THEN Fail(h, "ValueError")
        ELSE [h EXCEPT !.dos_energies_val = Append(@, FloatVal(tok[1])),
                       !.dos_val = Append(@, FloatVal(tok[2])),
                       !.idos_val = Append(@, FloatVal(tok[3]))]

\* EndPartialRow keeping the energy column in the row
EndPartialRowKeepsEnergy(h) ==
    LET tok == SplitWS(Strip(h.val))
    IN  IF ~ValOf(h).ok THEN Fail(h, "AttributeError")
        ELSE IF ~AllFloat(Tail(tok)) THEN Fail(h, "ValueError")
        ELSE [h EXCEPT !.raw_data = Append(@, Floats(tok))]

EndPartialRow(h) ==
    LET tok == SplitWS(Strip(h.val))
    IN  IF ~ValOf(h).ok THEN Fail(h, "AttributeError")
        ELSE IF ~AllFloat(Tail(tok)) THEN Fail(h, "ValueError")
        ELSE [h EXCEPT !.raw_data = Append(@, Floats(Tail(tok)))]

\* EndTotalSet keeping the energy grid of the spin set that closed first
EndTotalSetKeepsFirstGrid(h) ==
    LET spin == SpinOf(h.state["set"])
    IN  IF DOMAIN h.tdos # {"dict"} \/ DOMAIN h.idos # {"dict"} THEN Fail(h, "TypeError")
        ELSE [h EXCEPT !.tdos = [dict |-> Put(h.tdos.dict, spin, h.dos_val)],
                       !.idos = [dict |-> Put(h.idos.dict, spin, h.dos_val)],
                       !.dos_energies = IF @ = <<>> THEN <<h.dos_energies_val>> ELSE @,
                       !.dos_energies_val = <<>>,
                       !.dos_val = <<>>,
                       !.idos_val = <<>>]

\* lines 988-995
EndTotalSet(h) ==
    LET spin == SpinOf(h.state["set"])
    IN  IF DOMAIN h.tdos # {"dict"} \/ DOMAIN h.idos # {"dict"} THEN Fail(h, "TypeError")
        ELSE [h EXCEPT !.tdos = [dict |-> Put(h.tdos.dict, spin, h.dos_val)],
                       !.idos = [dict |-> Put(h.idos.dict, spin, h.dos_val)],
                       !.dos_energies = <<h.dos_energies_val>>,
                       !.dos_energies_val = <<>>,
                       !.dos_val = <<>>,
                       !.idos_val = <<>>]

\* lines 996-1001
RECURSIVE PutColumns(_, _, _, _, _)
PutColumns(pdos, ion, spin, rows, i) ==
    IF i < 0 THEN pdos
    ELSE Put(PutColumns(pdos, ion, spin, rows, i - 1), <<ion, i, spin>>, [k \in 1..Len(rows) |-> rows[k][i + 1]])

EndPartialSet(h) ==
    LET spin == SpinOf(h.state["set"])
        n == Len(h.raw_data[1])
    IN  IF h.raw_data = <<>> THEN Fail(h, "IndexError")
        ELSE IF n > 0 /\ "pdos_ion" \notin h.defined THEN Fail(h, "AttributeError")
        ELSE IF n > 0 /\ \E k \in 1..Len(h.raw_data) : Len(h.raw_data[k]) < n THEN Fail(h, "IndexError")
        ELSE IF n > 0 /\ DOMAIN h.pdos # {"dict"} THEN Fail(h, "TypeError")
        ELSE Def([h EXCEPT !.norbitals = n,
                           !.pdos = IF n > 0 THEN [dict |-> PutColumns(h.pdos.dict, h.pdos_ion, spin, h.raw_data, n - 1)] ELSE @,
                           !.raw_data = <<>>], {"norbitals"})

\* PDos(efermi, energies, densities, orbital) and Dos(efermi, energies, densities)
\* of pymatgen.core.electronic_structure
PDos(efermi, energies, densities, orbital) ==
    [efermi |-> efermi, energies |-> energies, densities |-> densities, orbital |-> orbital]

Dos(efermi, energies, densities) == [efermi |-> efermi, energies |-> energies, densities |-> densities]

\* PDosOf giving an empty vector for a spin down that was not collected
PDosOfZeroFilled(h, iatom, iorbital) ==
    LET updos == h.pdos.dict[<<iatom, iorbital, "up">>]
        down == <<iatom, iorbital, "down">>
    IN  PDos(h.efermi, h.dos_energies,
             [s \in {"up", "down"} |-> IF s = "up" THEN updos
                                       ELSE IF down \in DOMAIN h.pdos.dict THEN h.pdos.dict[down] ELSE <<>>],
             iorbital)

\* lines 1008-1013
PDosOf(h, iatom, iorbital) ==
    LET updos == h.pdos.dict[<<iatom, iorbital, "up">>]
        down == <<iatom, iorbital, "down">>
    IN  IF down \in DOMAIN h.pdos.dict /\ h.pdos.dict[down] # <<>>
        THEN PDos(h.efermi, h.dos_energies, [s \in {"up", "down"} |-> IF s = "up" THEN updos ELSE h.pdos.dict[down]], iorbital)
        ELSE PDos(h.efermi, h.dos_energies, [s \in {"up"} |-> updos], iorbital)

\* lines 1002-1014
EndPartial(h) ==
    LET natom == Len(h.atomic_symbols)
    IN  IF natom = 0 THEN [h EXCEPT !.pdos = [list |-> <<>>]]
        ELSE IF "norbitals" \notin h.defined THEN Fail(h, "AttributeError")
        ELSE IF h.norbitals = 0 THEN [h EXCEPT !.pdos = [list |-> [a \in 1..natom |-> <<>>]]]
        ELSE IF DOMAIN h.pdos # {"dict"} THEN Fail(h, "TypeError")
        ELSE IF \E a \in 1..natom, o \in 0..(h.norbitals - 1) : <<a, o, "up">> \notin DOMAIN h.pdos.dict
             THEN Fail(h, "KeyError")
        ELSE [h EXCEPT !.pdos = [list |-> [a \in 1..natom |-> [o \in 1..h.norbitals |-> PDosOf(h, a, o - 1)]]]]

\* lines 977-1019
EndDos(h, name) ==
    IF name = "i" /\ h.state["i"] = "efermi"
    THEN IF ~ValOf(h).ok THEN Fail(h, "AttributeError")
         ELSE IF ~FloatOk(h.val) THEN Fail(h, "ValueError")
         ELSE [h EXCEPT !.efermi = <<FloatVal(h.val)>>]
    ELSE IF name = "r" /\ Truthy(h.state["total"]) /\ StartsWith(h.state["set"], PSpin) THEN EndTotalRow(h)
    ELSE IF name = "r" /\ Truthy(h.state["partial"]) /\ StartsWith(h.state["set"], PSpin) THEN EndPartialRow(h)
    ELSE IF name = "set" /\ Truthy(h.state["total"]) /\ StartsWith(h.state["set"], PSpin) THEN EndTotalSet(h)
    ELSE IF name = "set" /\ Truthy(h.state["partial"]) /\ StartsWith(h.state["set"], PSpin) THEN EndPartialSet(h)
    ELSE IF name = "partial" THEN EndPartial(h)
    ELSE IF name = "total"
    THEN [h EXCEPT !.tdos = Dos(h.efermi, h.dos_energies, h.tdos), !.idos = Dos(h.efermi, h.dos_energies, h.idos)]
    ELSE IF name = "dos" THEN [h EXCEPT !.read_dos = FALSE]
    ELSE h

\* EndEigen keeping the rows collected when a set closes
EndEigenKeepsRows(h, name) ==
    IF name = "r" /\ StartsWith(h.state["set"], PKpoint)
    THEN IF ~ValOf(h).ok THEN Fail(h, "AttributeError")
         ELSE IF ~AllFloat(SplitWS(Strip(h.val))) THEN Fail(h, "ValueError")
         ELSE [h EXCEPT !.raw_data = Append(@, Floats(SplitWS(Strip(h.val))))]
    ELSE IF name = "set" /\ StartsWith(h.state["set"], PKpoint)
    THEN IF ~({"eigen_kpoint", "eigen_spin"} \subseteq h.defined) THEN Fail(h, "AttributeError")
         ELSE [h EXCEPT !.eigenvalues = Put(@, <<h.eigen_kpoint, h.eigen_spin>>, h.raw_data)]
    ELSE IF name = "eigenvalues" THEN [h EXCEPT !.read_eigen = FALSE]
    ELSE h

\* lines 1020-1028
EndEigen(h, name) ==
    IF name = "r" /\ StartsWith(h.state["set"], PKpoint)
    THEN IF ~ValOf(h).ok THEN Fail(h, "AttributeError")
         ELSE IF ~AllFloat(SplitWS(Strip(h.val))) THEN Fail(h, "ValueError")
         ELSE [h EXCEPT !.raw_data = Append(@, Floats(SplitWS(Strip(h.val))))]
    ELSE IF name = "set" /\ StartsWith(h.state["set"], PKpoint)
    THEN IF ~({"eigen_kpoint", "eigen_spin"} \subseteq h.defined) THEN Fail(h, "AttributeError")
         ELSE [h EXCEPT !.eigenvalues = Put(@, <<h.eigen_kpoint, h.eigen_spin>>, h.raw_data), !.raw_data = <<>>]
    ELSE IF name = "eigenvalues" THEN [h EXCEPT !.read_eigen = FALSE]
    ELSE h

\* lines 966-1028
EndSection(h, name) ==
    IF h.read_structure
    THEN IF name = "v" THEN [h EXCEPT !.read_positions = FALSE, !.read_lattice = FALSE]
         ELSE IF name = "structure" THEN EndStructure(h)
         ELSE h
    ELSE IF h.read_dos THEN EndDos(h, name)
    ELSE IF h.read_eigen THEN EndEigen(h, name)
    ELSE h

\* endElement without the test of line 917: the input branches at every end
endElementUngated(h, name, listing) ==
    LET a == LET i == EndInput(h, name, listing)
             IN  IF ~h.input_read \/ i.error # "None" THEN i
                 ELSE LET c == EndInCalculation(i, name)
                      IN  IF c.error = "None" THEN EndSection(c, name) ELSE c
    IN  IF a.error = "None" THEN [a EXCEPT !.state[name] = "False"] ELSE a

\* lines 915-1030
endElement(h, name, listing) ==
    LET a == IF ~h.input_read THEN EndInput(h, name, listing)
             ELSE LET c == EndInCalculation(h, name)
                  IN  IF c.error = "None" THEN EndSection(c, name) ELSE c
    IN  IF a.error = "None" THEN [a EXCEPT !.state[name] = "False"] ELSE a

(***************************************************************************)
(* The state: the handler, the parser that drives it, the directory of the *)
(* report, and the attributes of the Vasprun object.                       *)
(*   h        the VasprunHandler                                           *)
(*   open     the elements the parser has open, innermost last; each with  *)
(*            the place reached in its content                             *)
(*   count    how many elements of each kind the parser has started        *)
(*   phase    "begin", "in" (inside the root), "closed", "done"            *)
(*   listing  os.listdir of the directory of the report                    *)
(*   result   <<>> until Vasprun.__init__ has copied the attributes        *)
(*   seen     what the parser has delivered (used to state the claims)     *)
(*   env      the objects of the program beside the one parse: the two     *)
(*            tables of Incar.diff, the structure of a Vacancy, the        *)
(*            handlers of two parses and the objects they refer to         *)
(***************************************************************************)
VARIABLES h, open, count, phase, listing, result, seen, env

vars == <<h, open, count, phase, listing, result, seen, env>>

\* No object beside the parse
NoEnv == [kind |-> "none"]

NoAttrs == [k \in {} |-> ""]

\* An element of a report: its tag, its attributes, the kinds of element its
\* content may hold, in this order, and the text fragments a leaf may hold.
\* `rep` is how many of the kind may follow each other under one parent, `cap`
\* how many the whole report may hold, `req` whether the kind may be left out.
Elem(tag, attrs, kids, texts, rep, cap, req) ==
    [tag |-> tag, attrs |-> attrs, kids |-> kids, texts |-> texts, rep |-> rep, cap |-> cap, req |-> req]

Frame(kind, tag, attrs) ==
    [kind |-> kind, tag |-> tag, attrs |-> attrs, idx |-> 0, reps |-> 0, frags |-> 0, text |-> <<>>]

\* What the parser has delivered, updated on each event:
\*   sc       the scstep records closed since the last calculation start
\*   ncalc    the calculation sections closed
\*   nstruct  the structure sections closed
\*   label    the comment of the open labelled set, "" if there is none
\*   rows     the numbers of the rows closed since the last set start
\*   sets     the labelled sets closed since the last dos start, each with
\*            its comment and its rows
\*   cstruct  the structure sections closed since the last calculation start
\*   cforces  a forces array has closed since the last calculation start
\*   cstress  a stress array has closed since the last calculation start
\*   entries  the texts, stripped, of the c leaves closed since the last
\*            array start
\*   final    the set of an array named atoms has closed
\*   catalogue  the entries of the first array named atoms whose set closed
\*   esets    the labelled sets closed in an eigenvalues section since the
\*            last eigenvalues start
\*   fermi    the number of the efermi leaf closed last since the last dos
\*            start, <<>> if there is none
\*   unbalanced  the report has an end tag that does not match the innermost
\*            open element, or stops before its root element has closed
SeenInit == [sc |-> <<>>, ncalc |-> 0, nstruct |-> 0, label |-> "", rows |-> <<>>, sets |-> <<>>,
             cstruct |-> 0, cforces |-> FALSE, cstress |-> FALSE, entries |-> <<>>, final |-> FALSE,
             catalogue |-> <<>>, esets |-> <<>>, fermi |-> <<>>, unbalanced |-> FALSE]

\* The name of the innermost open array, "" if there is none
ArrayName(frames) ==
    LET at == {k \in 1..Len(frames) : frames[k].tag = "array"}
    IN  IF at = {} THEN ""
        ELSE LET f == frames[CHOOSE k \in at : \A j \in at : j <= k]
             IN  IF "name" \in DOMAIN f.attrs THEN f.attrs["name"] ELSE ""

SeenStart(tag, attrs, hh) ==
    [seen EXCEPT !.sc = IF tag = "calculation" THEN <<>> ELSE @,
                 !.label = IF tag # "set" THEN @
                           ELSE IF "comment" \in DOMAIN attrs THEN attrs["comment"] ELSE "",
                 !.rows = IF tag = "set" THEN <<>> ELSE @,
                 !.sets = IF tag = "dos" THEN <<>> ELSE @,
                 !.esets = IF tag = "eigenvalues" THEN <<>> ELSE @,
                 !.fermi = IF tag = "dos" THEN <<>> ELSE @,
                 !.cstruct = IF tag = "calculation" THEN 0 ELSE @,
                 !.cforces = IF tag = "calculation" THEN FALSE ELSE @,
                 !.cstress = IF tag = "calculation" THEN FALSE ELSE @,
                 !.entries = IF tag = "array" THEN <<>> ELSE @]

IsArray(f, name) == f.tag = "varray" /\ "name" \in DOMAIN f.attrs /\ f.attrs["name"] = name

RowOf(text) ==
    LET tok == SplitWS(Strip(text))
    IN  IF AllFloat(tok) THEN Floats(tok) ELSE <<>>

SeenEnd(tag, hh) ==
    IF hh.error # "None" THEN seen
    ELSE [seen EXCEPT !.sc = IF tag = "scstep" THEN Append(@, hh.scstep) ELSE @,
                      !.ncalc = IF tag = "calculation" THEN @ + 1 ELSE @,
                      !.nstruct = IF tag = "structure" THEN @ + 1 ELSE @,
                      !.rows = IF tag = "r" THEN Append(@, RowOf(Last(open).text))
                               ELSE IF tag = "set" THEN <<>> ELSE @,
                      !.sets = IF tag = "set" /\ seen.label # ""
                               THEN Append(@, [comment |-> seen.label, rows |-> seen.rows]) ELSE @,
                      !.esets = IF tag = "set" /\ seen.label # "" /\ \E k \in 1..Len(open) : open[k].tag = "eigenvalues"
                                THEN Append(@, [comment |-> seen.label, rows |-> seen.rows]) ELSE @,
                      !.fermi = IF tag = "i" /\ "name" \in DOMAIN Last(open).attrs
                                             /\ Last(open).attrs["name"] = "efermi"
                                THEN <<FloatVal(Last(open).text)>> ELSE @,
                      !.label = IF tag = "set" THEN "" ELSE @,
                      !.cstruct = IF tag = "structure" THEN @ + 1 ELSE IF tag = "calculation" THEN 0 ELSE @,
                      !.cforces = IF IsArray(Last(open), "forces") THEN TRUE
                                  ELSE IF tag = "calculation" THEN FALSE ELSE @,
                      !.cstress = IF IsArray(Last(open), "stress") THEN TRUE
                                  ELSE IF tag = "calculation" THEN FALSE ELSE @,
                      !.entries = IF tag = "c" THEN Append(@, Strip(Last(open).text)) ELSE @,
                      !.final = IF tag = "set" /\ ArrayName(open) = "atoms" THEN TRUE ELSE @,
                      !.catalogue = IF tag = "set" /\ ArrayName(open) = "atoms" /\ ~seen.final
                                    THEN seen.entries ELSE @]

\* The kids of frame f that have to come before its kid j, or before its end
\* (j past the last kid), are there
MayPass(G, f, j) ==
    LET kids == G[f.kind].kids
    IN  \A i \in (f.idx + 1)..(j - 1) : i \in 1..Len(kids) => ~G[kids[i]].req

\* The kinds the element on top may start next
Offered(G) ==
    IF phase = "begin" THEN {<<1, "modeling">>}
    ELSE IF open = <<>> THEN {}
    ELSE LET f == Last(open)
             kids == G[f.kind].kids
         IN  {<<j, kids[j]>> : j \in {j \in 1..Len(kids) :
                                        /\ j > f.idx \/ (j = f.idx /\ f.reps < G[kids[j]].rep)
                                        /\ MayPass(G, f, j)
                                        /\ count[kids[j]] < G[kids[j]].cap}}

\* xml.sax.parse delivers an element start
StartElement(G) ==
    /\ h.error = "None"
    /\ phase \in {"begin", "in"}
    /\ \E o \in Offered(G) :
          /\ h' = startElement(h, G[o[2]].tag, G[o[2]].attrs)
          /\ open' = (IF open = <<>> THEN <<>>
                      ELSE [open EXCEPT ![Len(open)] =
                              [kind |-> @.kind, tag |-> @.tag, attrs |-> @.attrs, idx |-> o[1], frags |-> @.frags,
                               text |-> @.text,
                               reps |-> IF o[1] = @.idx THEN @.reps + 1 ELSE 1]])
                     \o <<Frame(o[2], G[o[2]].tag, G[o[2]].attrs)>>
          /\ count' = [count EXCEPT ![o[2]] = @ + 1]
          /\ seen' = SeenStart(G[o[2]].tag, G[o[2]].attrs, h')
    /\ phase' = "in"
    /\ UNCHANGED <<listing, result, env>>

\* xml.sax.parse delivers a fragment of the text of the open leaf
Characters(G, MaxFrags) ==
    /\ h.error = "None"
    /\ phase = "in"
    /\ open # <<>>
    /\ Last(open).frags < MaxFrags
    /\ \E data \in G[Last(open).kind].texts :
          /\ h' = characters(h, data)
          /\ open' = [open EXCEPT ![Len(open)].frags = @ + 1, ![Len(open)].text = @ \o data]
    /\ UNCHANGED <<count, phase, listing, result, seen, env>>

\* xml.sax.parse delivers the end of the innermost open element
EndElement(G, MinFrags) ==
    /\ h.error = "None"
    /\ phase = "in"
    /\ open # <<>>
    /\ MayPass(G, Last(open), Len(G[Last(open).kind].kids) + 1)
    /\ G[Last(open).kind].texts # {} => Last(open).frags >= MinFrags
    /\ h' = endElement(h, Last(open).tag, listing)
    /\ open' = SubSeq(open, 1, Len(open) - 1)
    /\ phase' = IF Len(open) = 1 THEN "closed" ELSE "in"
    /\ seen' = SeenEnd(Last(open).tag, h')
    /\ UNCHANGED <<count, listing, result, env>>

supported_properties == {"vasp_version", "incar", "parameters", "potcar_symbols", "atomic_symbols", "kpoints",
                         "actual_kpoints", "structures", "actual_kpoints_weights", "dos_energies", "eigenvalues",
                         "tdos", "idos", "pdos", "efermi", "ionic_steps"}

\* EndDocument copying the attributes of the handler after an exception too
EndDocumentSalvages ==
    /\ phase \in {"in", "closed"}
    /\ result = <<>>
    /\ result' = <<[k \in supported_properties |-> h[k]]>>
    /\ phase' = "done"
    /\ UNCHANGED <<h, open, count, listing, seen, env>>

\* Vasprun.__init__, lines 682-683, once xml.sax.parse has returned
EndDocument ==
    /\ h.error = "None"
    /\ phase = "closed"
    /\ result' = <<[k \in supported_properties |-> h[k]]>>
    /\ phase' = "done"
    /\ UNCHANGED <<h, open, count, listing, seen, env>>

\* Mismatch with a parser that passes over the end tag
MismatchIgnored ==
    /\ h.error = "None"
    /\ phase = "in"
    /\ open # <<>>
    /\ \E tag \in Tags : tag # Last(open).tag
    /\ ~seen.unbalanced
    /\ seen' = [seen EXCEPT !.unbalanced = TRUE]
    /\ UNCHANGED <<h, open, count, phase, listing, result, env>>

\* xml.sax.parse, line 681, meets an end tag that is not the tag of the
\* innermost open element: it raises SAXParseException and delivers nothing more
Mismatch ==
    /\ h.error = "None"
    /\ phase = "in"
    /\ open # <<>>
    /\ \E tag \in Tags : tag # Last(open).tag
    /\ ~seen.unbalanced
    /\ h' = Fail(h, "SAXParseException")
    /\ seen' = [seen EXCEPT !.unbalanced = TRUE]
    /\ UNCHANGED <<open, count, phase, listing, result, env>>

\* xml.sax.parse, line 681, reaches the end of the file before the root
\* element has closed: it raises SAXParseException
Truncated ==
    /\ h.error = "None"
    /\ phase \in {"begin", "in"}
    /\ h' = Fail(h, "SAXParseException")
    /\ seen' = [seen EXCEPT !.unbalanced = TRUE]
    /\ UNCHANGED <<open, count, phase, listing, result, env>>

\* Vasprun.__init__, lines 677-680
InitWith(G, filenames, listings) ==
    /\ \E f \in filenames : h = HandlerInit(f)
    /\ open = <<>>
    /\ count = [k \in DOMAIN G |-> 0]
    /\ phase = "begin"
    /\ listing \in listings
    /\ result = <<>>
    /\ seen = SeenInit
    /\ env = NoEnv

(***************************************************************************)
(* Reports with structures and calculation sections                        *)
(***************************************************************************)
MaxAtoms == 1
MaxCalcs == 2
MaxScsteps == 2
MaxStructs == 2

TFe == <<"F", "e">>
T1 == <<" ", "1">>
T2 == <<" ", "2">>
TRow0 == <<" ", "0", " ", "0", " ", "0">>
TRow1 == <<" ", "1", " ", "0", " ", "0">>
TLattice == <<"1", " ", "0", " ", "0", " ", "0", " ", "1", " ", "0", " ", "0", " ", "0", " ", "1">>

GIonic ==
    [modeling |-> Elem("modeling", NoAttrs, <<"atoms", "atomtypes", "structure", "calculation">>, {}, 1, 1, TRUE),
     atoms |-> Elem("array", [name |-> "atoms"], <<"atomset">>, {}, 1, 1, TRUE),
     atomset |-> Elem("set", NoAttrs, <<"rc">>, {}, 1, 1, TRUE),
     rc |-> Elem("rc", NoAttrs, <<"c1", "c2">>, {}, MaxAtoms, MaxAtoms, TRUE),
     c1 |-> Elem("c", NoAttrs, <<>>, {TFe}, 1, MaxAtoms, TRUE),
     c2 |-> Elem("c", NoAttrs, <<>>, {TFe}, 1, MaxAtoms, TRUE),
     atomtypes |-> Elem("array", [name |-> "atomtypes"], <<"typeset">>, {}, 1, 1, TRUE),
     typeset |-> Elem("set", NoAttrs, <<>>, {}, 1, 1, TRUE),
     calculation |-> Elem("calculation", NoAttrs, <<"scstep", "structure", "forces", "stress">>, {}, MaxCalcs, MaxCalcs, FALSE),
     scstep |-> Elem("scstep", NoAttrs, <<"e">>, {}, MaxScsteps, MaxScsteps, FALSE),
     e |-> Elem("i", [name |-> "e_wo_entrp"], <<>>, {T1, T2}, 1, MaxScsteps, TRUE),
     structure |-> Elem("structure", NoAttrs, <<"basis", "positions">>, {}, 1, MaxStructs, FALSE),
     basis |-> Elem("varray", [name |-> "basis"], <<"lv">>, {}, 1, MaxStructs, TRUE),
     lv |-> Elem("v", NoAttrs, <<>>, {TLattice}, 1, MaxStructs, TRUE),
     positions |-> Elem("varray", [name |-> "positions"], <<"pv">>, {}, 1, MaxStructs, TRUE),
     pv |-> Elem("v", NoAttrs, <<>>, {TRow0}, MaxAtoms, MaxStructs * MaxAtoms, FALSE),
     forces |-> Elem("varray", [name |-> "forces"], <<"fv">>, {}, 1, MaxCalcs, FALSE),
     fv |-> Elem("v", NoAttrs, <<>>, {TRow0, TRow1}, MaxAtoms, MaxCalcs * MaxAtoms, FALSE),
     stress |-> Elem("varray", [name |-> "stress"], <<"sv">>, {}, 1, MaxCalcs, FALSE),
     sv |-> Elem("v", NoAttrs, <<>>, {TLattice}, 1, MaxCalcs, TRUE)]

Report == <<"run", "vasprun.xml">>

InitIonic == InitWith(GIonic, {Report}, {<<>>})

NextIonic == StartElement(GIonic) \/ Characters(GIonic, 1) \/ EndElement(GIonic, 1) \/ EndDocument

SpecIonic == InitIonic /\ [][NextIonic]_vars

(***************************************************************************)
(* Claims about structures and ionic steps                                 *)
(***************************************************************************)
\* The parser delivers the end of an element with this tag and the handler
\* takes it without raising
Closes(tag) ==
    /\ open # <<>>
    /\ Last(open).tag = tag
    /\ open' = SubSeq(open, 1, Len(open) - 1)
    /\ h'.error = "None"

\* C1: whenever a calculation section closes, exactly one ionic step is
\* appended; it holds the convergence iterations closed since the start of
\* that calculation section, in order, the structure that is last in the list
\* of structures at that moment, and the force and stress matrices reshaped
\* last.
C1_IonicStepOnClose ==
    [][Closes("calculation") =>
         /\ Len(h'.ionic_steps) = Len(h.ionic_steps) + 1
         /\ SubSeq(h'.ionic_steps, 1, Len(h.ionic_steps)) = h.ionic_steps
         /\ Last(h'.ionic_steps) = [electronic_steps |-> seen.sc,
                                    structure |-> Last(h.structures),
                                    forces |-> h.forces,
                                    stress |-> h.stress]]_vars

\* A second ionic step is there, and the two hold different convergence
\* iterations.
C1_Witness ==
    /\ Len(h.ionic_steps) = 2
    /\ h.ionic_steps[1].electronic_steps # <<>>
    /\ h.ionic_steps[2].electronic_steps # <<>>
    /\ h.ionic_steps[1].electronic_steps # h.ionic_steps[2].electronic_steps

C3_ForceRows ==
    /\ \A k \in 1..Len(h.ionic_steps) :
          Len(h.ionic_steps[k].forces) = Len(h.ionic_steps[k].structure.species)
    /\ phase = "done" =>
          \A k \in 1..Len(result[1].ionic_steps) :
             Len(result[1].ionic_steps[k].forces) = Len(result[1].ionic_steps[k].structure.coords)

\* A parse that ended with an ionic step whose force matrix has a row
C3_Witness ==
    /\ phase = "done"
    /\ result[1].ionic_steps # <<>>
    /\ Len(result[1].ionic_steps[1].forces) = 1
    /\ Len(result[1].ionic_steps[1].structure.species) = 1

(***************************************************************************)
(* Reports with a density of states: the total part, one set of rows for   *)
(* each spin                                                               *)
(***************************************************************************)
MaxRows == 2

TRowA == <<" ", "1", " ", "2", " ", "3">>
TRowB == <<" ", "2", " ", "4", " ", "7">>

GDos ==
    [modeling |-> Elem("modeling", NoAttrs, <<"atomtypes", "dos">>, {}, 1, 1, TRUE),
     atomtypes |-> Elem("array", [name |-> "atomtypes"], <<"typeset">>, {}, 1, 1, TRUE),
     typeset |-> Elem("set", NoAttrs, <<>>, {}, 1, 1, TRUE),
     dos |-> Elem("dos", NoAttrs, <<"efermi", "total">>, {}, 1, 1, TRUE),
     efermi |-> Elem("i", [name |-> "efermi"], <<>>, {T1}, 1, 1, TRUE),
     total |-> Elem("total", NoAttrs, <<"tarray">>, {}, 1, 1, TRUE),
     tarray |-> Elem("array", NoAttrs, <<"tset">>, {}, 1, 1, TRUE),
     tset |-> Elem("set", NoAttrs, <<"spin1", "spin2">>, {}, 1, 1, TRUE),
     spin1 |-> Elem("set", [comment |-> "spin 1"], <<"r1">>, {}, 1, 1, TRUE),
     r1 |-> Elem("r", NoAttrs, <<>>, {TRowA, TRowB}, MaxRows, MaxRows, TRUE),
     spin2 |-> Elem("set", [comment |-> "spin 2"], <<"r2">>, {}, 1, 1, FALSE),
     r2 |-> Elem("r", NoAttrs, <<>>, {TRowA, TRowB}, MaxRows, MaxRows, TRUE)]

InitDos == InitWith(GDos, {Report}, {<<>>})

NextDos == StartElement(GDos) \/ Characters(GDos, 1) \/ EndElement(GDos, 1) \/ EndDocument

SpecDos == InitDos /\ [][NextDos]_vars

(***************************************************************************)
(* Claims about the total density of states                                *)
(***************************************************************************)
Column(rows, j) == [k \in 1..Len(rows) |-> rows[k][j]]

\* The parser delivers the end of a set of the total part that is labelled
\* with a spin, and the handler takes it without raising
ClosesSpinSet ==
    /\ Closes("set")
    /\ seen.label \in {"spin 1", "spin 2"}
    /\ \E k \in 1..Len(open) : open[k].tag = "total"

\* C4: when a spin set of the total part closes, the second column of the rows
\* of that set is stored under that spin as the total density and the third
\* column as the integrated density.
C4_ColumnsStoredApart ==
    [][ClosesSpinSet =>
         /\ h'.tdos.dict[SpinOf(seen.label)] = Column(seen.rows, 2)
         /\ h'.idos.dict[SpinOf(seen.label)] = Column(seen.rows, 3)]_vars

\* C5 as stated: once a spin set of the total part has closed, the energy grid
\* is the first column of the first spin set that closed in the dos section,
\* and it is the grid of the densities handed over after the parse.
C5_FirstGridKept ==
    /\ seen.sets # <<>> => h.dos_energies = <<Column(seen.sets[1].rows, 1)>>
    /\ phase = "done" /\ seen.sets # <<>> =>
          /\ result[1].dos_energies = <<Column(seen.sets[1].rows, 1)>>
          /\ result[1].tdos.energies = <<Column(seen.sets[1].rows, 1)>>

\* C5 as amended: once a spin set of the total part has closed, the energy
\* grid is the first column of the spin set that closed last in the dos
\* section, and it is the grid of the densities handed over after the parse.
C5_LastGridKept ==
    /\ seen.sets # <<>> => h.dos_energies = <<Column(Last(seen.sets).rows, 1)>>
    /\ phase = "done" /\ seen.sets # <<>> =>
          /\ result[1].dos_energies = <<Column(Last(seen.sets).rows, 1)>>
          /\ result[1].tdos.energies = <<Column(Last(seen.sets).rows, 1)>>

\* A parse that ended after two spin sets with different energy columns
C5_Witness ==
    /\ phase = "done"
    /\ Len(seen.sets) = 2
    /\ seen.sets[1].rows # <<>>
    /\ Column(seen.sets[1].rows, 1) # Column(seen.sets[2].rows, 1)

\* C6: after the total part has closed, the total density and the integrated
\* density of every spin present are as long as the energy grid.
C6_EqualLengths ==
    phase = "done" =>
       \A spin \in DOMAIN result[1].tdos.densities.dict :
          /\ result[1].tdos.energies # <<>>
          /\ Len(result[1].tdos.densities.dict[spin]) = Len(result[1].tdos.energies[1])
          /\ Len(result[1].idos.densities.dict[spin]) = Len(result[1].idos.energies[1])
          /\ Len(result[1].dos_energies[1]) = Len(result[1].tdos.energies[1])

(***************************************************************************)
(* Reports with run parameters, read beside a directory that may hold      *)
(* INCAR files                                                             *)
(***************************************************************************)
TStars == <<"2", "*", "*", "*", "*">>
TPair == <<"1", " ", "2">>
TBadPair == <<"1", " ", "*", "*", "*", "*">>

GParams ==
    [modeling |-> Elem("modeling", NoAttrs, <<"incar", "parameters">>, {}, 1, 1, TRUE),
     incar |-> Elem("incar", NoAttrs, <<"iNSW", "iEDIFF", "vLDAUL", "vMAGMOM">>, {}, 1, 1, TRUE),
     iNSW |-> Elem("i", [name |-> "NSW", type |-> "int"], <<>>, {T2, TStars}, 1, 1, FALSE),
     iEDIFF |-> Elem("i", [name |-> "EDIFF"], <<>>, {T2, TStars}, 1, 1, FALSE),
     vLDAUL |-> Elem("v", [name |-> "LDAUL", type |-> "int"], <<>>, {TPair, TBadPair}, 1, 1, FALSE),
     vMAGMOM |-> Elem("v", [name |-> "MAGMOM"], <<>>, {TPair, TBadPair}, 1, 1, FALSE),
     parameters |-> Elem("parameters", NoAttrs, <<"pNSW", "pMAGMOM">>, {}, 1, 1, FALSE),
     pNSW |-> Elem("i", [name |-> "NSW", type |-> "int"], <<>>, {T2, TStars}, 1, 1, FALSE),
     pMAGMOM |-> Elem("v", [name |-> "MAGMOM"], <<>>, {TPair, TBadPair}, 1, 1, FALSE)]

\* The report named without a directory
Bare == <<"vasprun.xml">>

\* Files of the directory of the report
FReport == [name |-> <<"v", "a", "s", "p", "r", "u", "n", ".", "x", "m", "l">>, incar |-> EmptyDict]
FIncar ==
    [name |-> INCAR,
     incar |-> [k \in {"NSW", "EDIFF", "LDAUL", "MAGMOM"} |->
                  CASE k = "NSW" -> proc_val(k, <<"9">>)
                    [] k = "EDIFF" -> proc_val(k, <<"0", ".", "5">>)
                    [] k = "LDAUL" -> proc_val(k, <<"2", " ", "2">>)
                    [] k = "MAGMOM" -> proc_val(k, <<"2", "*", "5">>)]]
FIncarOther == [name |-> INCAR, incar |-> [k \in {"NELM"} |-> proc_val(k, <<"6">>)]]
FIncarOrig == [name |-> INCAR \o <<".", "o", "r", "i", "g">>, incar |-> EmptyDict]

\* Directories: no INCAR file; one that defines the parameters; one that does
\* not; one that defines them, listed after an INCAR.orig that does not
Listings == {<<FReport>>, <<FReport, FIncar>>, <<FIncarOther, FReport>>, <<FIncarOrig, FIncar, FReport>>}

InitParams == InitWith(GParams, {Report, Bare}, Listings)

NextParams == StartElement(GParams) \/ Characters(GParams, 1) \/ EndElement(GParams, 1) \/ EndDocument

SpecParams == InitParams /\ [][NextParams]_vars

(***************************************************************************)
(* Claims about malformed numbers and the INCAR beside the report          *)
(***************************************************************************)
\* The leaf the parser is about to close: its parameter, its declared type
\* (float if none is declared) and its text
LeafName == GParams[Last(open).kind].attrs["name"]

LeafType ==
    LET attrs == GParams[Last(open).kind].attrs
    IN  IF "type" \in DOMAIN attrs THEN attrs["type"] ELSE "float"

Numeric(type, tok) == IF type = "int" THEN IntOk(tok) ELSE FloatOk(tok)

\* The parser delivers the end of a leaf with this tag, declared int or float,
\* whose text holds a token that is no number
EndsMalformed(tag) ==
    /\ open # <<>>
    /\ Last(open).tag = tag
    /\ open' = SubSeq(open, 1, Len(open) - 1)
    /\ LeafType \in {"int", "float"}
    /\ LET toks == SplitWS(Strip(Last(open).text))
       IN  \E k \in 1..Len(toks) : ~Numeric(LeafType, toks[k])

\* The section the leaf belongs to
Table == open[Len(open) - 1].tag

\* An INCAR file of the directory of the report defines the parameter
SidecarDefines(key) ==
    \E k \in 1..Len(listing) : Search(INCAR, listing[k].name) /\ key \in DOMAIN listing[k].incar

SidecarValue(key) ==
    listing[CHOOSE k \in 1..Len(listing) : Search(INCAR, listing[k].name) /\ key \in DOMAIN listing[k].incar].incar[key]

\* C7: when a list leaf declared int or float holds a token that is no number
\* and an INCAR file beside the report defines the parameter, the leaf is
\* decoded without an error and the value stored is the value of the INCAR
\* file.
C7_SidecarReplacesList ==
    [][EndsMalformed("v") /\ SidecarDefines(LeafName) =>
         /\ h'.error = "None"
         /\ LeafName \in DOMAIN h'[Table]
         /\ h'[Table][LeafName] = SidecarValue(LeafName)]_vars

\* C8 as stated: when a scalar leaf declared int or float holds a text that is
\* no number and the lookup beside the report finds the parameter, decoding
\* does not fail and the value found is stored.
C8_ScalarFallsBack ==
    [][/\ EndsMalformed("i")
       /\ SidecarDefines(LeafName)
       /\ parse_from_incar(listing, h.filename, LeafName) = Ok(SidecarValue(LeafName))
       => /\ h'.error = "None"
          /\ LeafName \in DOMAIN h'[Table]
          /\ h'[Table][LeafName] = SidecarValue(LeafName)]_vars

\* C8 as amended: when a scalar leaf declared int or float holds a text that
\* is no number, decoding fails at once with a ValueError, whatever the
\* directory of the report holds, and nothing is stored.
C8_ScalarFailsAtOnce ==
    [][EndsMalformed("i") =>
         /\ h'.error = "ValueError"
         /\ h'.incar = h.incar
         /\ h'.parameters = h.parameters]_vars

\* A malformed scalar has failed although the lookup finds its parameter
C8_Witness ==
    /\ h.error = "ValueError"
    /\ h.incar_param # <<>>
    /\ SidecarDefines(h.incar_param[1])
    /\ parse_from_incar(listing, h.filename, h.incar_param[1]) = Ok(SidecarValue(h.incar_param[1]))

\* C9: when a leaf declared int or float holds a token that is no number and
\* no INCAR file beside the report defines the parameter, decoding fails, no
\* value is stored, and the parser delivers nothing after a failure.
C9_NoSidecarAborts ==
    [][/\ h.error = "None"
       /\ (EndsMalformed("i") \/ EndsMalformed("v")) /\ ~SidecarDefines(LeafName) =>
             /\ h'.error \in {"ValueError", "IOError", "OSError"}
             /\ h'.incar = h.incar
             /\ h'.parameters = h.parameters
             /\ result' = <<>>]_vars

\* A malformed list has failed for want of an INCAR file that defines it
C9_Witness ==
    /\ h.error = "IOError"
    /\ h.incar_param # <<>>
    /\ ~SidecarDefines(h.incar_param[1])
    /\ h.incar_param[1] \notin DOMAIN h.incar
    /\ result = <<>>

\* C10: for every path of the report and every parameter, the lookup does not
\* raise; it gives the value of the INCAR file that defines the parameter
\* and the absent value if there is none.
C10_ResolverNeverRaises ==
    \A key \in {"NSW", "EDIFF", "LDAUL", "MAGMOM", "NELM", "ENCUT"} :
       LET r == parse_from_incar(listing, h.filename, key)
       IN  /\ r.ok
           /\ r.value = IF SidecarDefines(key) THEN SidecarValue(key) ELSE None

(***************************************************************************)
(* Claims about calculation sections that lack data                        *)
(***************************************************************************)
\* The parser delivers the end of an element with this tag
Ends(tag) ==
    /\ open # <<>>
    /\ Last(open).tag = tag
    /\ open' = SubSeq(open, 1, Len(open) - 1)

\* C11: when a calculation section closes and no scstep has closed since its
\* start, the parse fails and no ionic step is appended (stated for the
\* sections that hold a structure, forces and stress, so that nothing else is
\* missing).
C11_NoScstepFails ==
    [][Ends("calculation") /\ seen.sc = <<>> /\ seen.cstruct > 0 /\ seen.cforces /\ seen.cstress =>
         /\ h'.error # "None"
         /\ h'.ionic_steps = h.ionic_steps]_vars

\* C12: when a calculation section closes and no structure section has closed
\* since its start, the parse fails and no ionic step is appended: the step
\* does not take a structure left from before the calculation section (stated
\* for the sections that hold a scstep, forces and stress, so that nothing
\* else is missing).
C12_NoStructureFails ==
    [][Ends("calculation") /\ seen.cstruct = 0 /\ seen.sc # <<>> /\ seen.cforces /\ seen.cstress =>
         /\ h'.error # "None"
         /\ h'.ionic_steps = h.ionic_steps]_vars

\* C13: the ionic step appended when a calculation section closes holds only
\* convergence iterations, a force matrix and a stress matrix collected since
\* the start of that calculation section.
C13_BuffersReset ==
    [][Closes("calculation") =>
         /\ Last(h'.ionic_steps).electronic_steps = seen.sc
         /\ seen.cforces
         /\ seen.cstress]_vars

(***************************************************************************)
(* Reports with the list of atoms in any place: structures before it,      *)
(* between it and the list of atom types, and after both; a second list of *)
(* atoms after the list of atom types                                      *)
(***************************************************************************)
MaxEntries == 4
MaxPosRows == 2

TO == <<"O">>
TX == <<" ", "X">>

GSpecies ==
    [modeling |-> Elem("modeling", NoAttrs, <<"sEarly", "atoms", "sEarly", "atomtypes", "atomsLate", "structure">>,
                       {}, 1, 1, TRUE),
     sEarly |-> Elem("structure", NoAttrs, <<"basis", "posOne">>, {}, 1, 2, FALSE),
     basis |-> Elem("varray", [name |-> "basis"], <<"lv">>, {}, 1, 3, TRUE),
     lv |-> Elem("v", NoAttrs, <<>>, {TLattice}, 1, 3, TRUE),
     posOne |-> Elem("varray", [name |-> "positions"], <<"pvOne">>, {}, 1, 2, TRUE),
     pvOne |-> Elem("v", NoAttrs, <<>>, {TRow0}, 1, 2, TRUE),
     atoms |-> Elem("array", [name |-> "atoms"], <<"atomset">>, {}, 1, 1, FALSE),
     atomset |-> Elem("set", NoAttrs, <<"c">>, {}, 1, 1, TRUE),
     c |-> Elem("c", NoAttrs, <<>>, {TFe, TO, TX}, MaxEntries, MaxEntries, FALSE),
     atomtypes |-> Elem("array", [name |-> "atomtypes"], <<"typeset">>, {}, 1, 1, TRUE),
     typeset |-> Elem("set", NoAttrs, <<>>, {}, 1, 1, TRUE),
     atomsLate |-> Elem("array", [name |-> "atoms"], <<"lateset">>, {}, 1, 1, FALSE),
     lateset |-> Elem("set", NoAttrs, <<"cLate">>, {}, 1, 1, TRUE),
     cLate |-> Elem("c", NoAttrs, <<>>, {TO}, 2, 2, TRUE),
     structure |-> Elem("structure", NoAttrs, <<"basis", "positions">>, {}, 1, 1, FALSE),
     positions |-> Elem("varray", [name |-> "positions"], <<"pv">>, {}, 1, 1, TRUE),
     pv |-> Elem("v", NoAttrs, <<>>, {TRow0, T1}, MaxPosRows, MaxPosRows, FALSE)]

InitSpecies == InitWith(GSpecies, {Report}, {<<>>})

NextSpecies == StartElement(GSpecies) \/ Characters(GSpecies, 1) \/ EndElement(GSpecies, 1) \/ EndDocument

SpecSpecies == InitSpecies /\ [][NextSpecies]_vars

Finalized(entries) ==
    [k \in 1..((Len(entries) + 1) \div 2) |->
       IF entries[2 * k - 1] = <<"X">> THEN <<"X", "e">> ELSE entries[2 * k - 1]]

\* C15: a structure is appended only after the list of atoms has closed, its
\* species are the list that the closed list of atoms stands for, and the
\* list of atomic symbols does not change once a structure is there.
C15_NoSnapshotBeforeCatalogue ==
    [][/\ Len(h'.structures) > Len(h.structures) =>
             /\ seen.final
             /\ Last(h'.structures).species = Finalized(seen.catalogue)
       /\ h.structures # <<>> => h'.atomic_symbols = h.atomic_symbols]_vars

\* A structure section has closed before the list of atoms, and a structure
\* was appended only later
C15_Witness ==
    /\ count["sEarly"] > 0
    /\ count["atomsLate"] > 0
    /\ Len(h.structures) = 1
    /\ h.structures[1].species # <<>>

(***************************************************************************)
(* Claims about the list of atoms and the list of atom types               *)
(***************************************************************************)
\* The parser delivers the end of the set of an array with this name while
\* the handler reads the input
ClosesCatalogue(name) ==
    /\ Closes("set")
    /\ ArrayName(open) = name
    /\ ~h.input_read

\* C16: when the list of atoms closes, the atomic symbols are the first, the
\* third, the fifth ... of the entries collected, in this order (an entry X
\* is left to C17).
C16_EverySecondEntry ==
    [][ClosesCatalogue("atoms") =>
         /\ Len(h'.atomic_symbols) = (Len(seen.entries) + 1) \div 2
         /\ \A k \in 1..Len(h'.atomic_symbols) :
               seen.entries[2 * k - 1] # <<"X">> => h'.atomic_symbols[k] = seen.entries[2 * k - 1]]_vars

\* The entries Fe, Fe, O, O have given the atomic symbols Fe, O
C16_Witness ==
    /\ seen.catalogue = <<TFe, TFe, TO, TO>>
    /\ h.atomic_symbols = <<TFe, TO>>

\* C17: when the list of atoms closes, an entry X that is kept is stored as
\* Xe and every other entry that is kept is stored as it is; from then on no
\* atomic symbol is X.
C17_XenonRenamed ==
    [][/\ ClosesCatalogue("atoms") =>
             \A k \in 1..Len(h'.atomic_symbols) :
                h'.atomic_symbols[k] = IF seen.entries[2 * k - 1] = <<"X">> THEN <<"X", "e">>
                                       ELSE seen.entries[2 * k - 1]
       /\ seen.final /\ h.error = "None" => \A k \in 1..Len(h'.atomic_symbols) : h'.atomic_symbols[k] # <<"X">>]_vars

\* An entry X has been kept, as Xe, beside an entry that is no X
C17_Witness ==
    /\ seen.final
    /\ seen.catalogue = <<<<"X">>, TO, TFe>>
    /\ h.atomic_symbols = <<<<"X", "e">>, TFe>>

(***************************************************************************)
(* Reports with a list of atom types                                       *)
(***************************************************************************)
MaxTypeEntries == 10

GTypes ==
    [modeling |-> Elem("modeling", NoAttrs, <<"atomtypes">>, {}, 1, 1, TRUE),
     atomtypes |-> Elem("array", [name |-> "atomtypes"], <<"typeset">>, {}, 1, 1, TRUE),
     typeset |-> Elem("set", NoAttrs, <<"c">>, {}, 1, 1, TRUE),
     c |-> Elem("c", NoAttrs, <<>>, {TFe, TO}, MaxTypeEntries, MaxTypeEntries, FALSE)]

InitTypes == InitWith(GTypes, {Report}, {<<>>})

NextTypes == StartElement(GTypes) \/ Characters(GTypes, 1) \/ EndElement(GTypes, 1) \/ EndDocument

SpecTypes == InitTypes /\ [][NextTypes]_vars

\* C18: when the list of atom types closes, the symbols stored are the fifth,
\* the tenth, the fifteenth ... of the entries collected, in this order, and
\* the input phase ends; no other event ends the input phase.
C18_EveryFifthEntry ==
    [][/\ ClosesCatalogue("atomtypes") =>
             /\ Len(h'.potcar_symbols) = Len(seen.entries) \div 5
             /\ \A k \in 1..Len(h'.potcar_symbols) : h'.potcar_symbols[k] = seen.entries[5 * k]
             /\ h'.input_read
       /\ ~h.input_read /\ h'.input_read => ClosesCatalogue("atomtypes")]_vars

\* Ten entries have given two symbols that differ
C18_Witness ==
    /\ h.input_read
    /\ Len(seen.entries) = 10
    /\ Len(h.potcar_symbols) = 2
    /\ h.potcar_symbols[1] # h.potcar_symbols[2]
    /\ seen.entries[1] # seen.entries[5]

(***************************************************************************)
(* Reports with parameters declared logical                                *)
(***************************************************************************)
TTrue == <<" ", "T">>
TTrueLow == <<"t">>
TFalse == <<"F">>
TFalseLow == <<" ", "f">>
TJunk == <<"x">>
TTrueFalse == <<"T", " ", "F">>
TTrueFalseLow == <<"t", " ", "f">>
TTrueJunk == <<"T", " ", "x">>

GLogical ==
    [modeling |-> Elem("modeling", NoAttrs, <<"incar", "parameters">>, {}, 1, 1, TRUE),
     incar |-> Elem("incar", NoAttrs, <<"iLWAVE", "vLDAU">>, {}, 1, 1, TRUE),
     iLWAVE |-> Elem("i", [name |-> "LWAVE", type |-> "logical"], <<>>,
                     {TTrue, TTrueLow, TFalse, TFalseLow, TJunk}, 1, 1, FALSE),
     vLDAU |-> Elem("v", [name |-> "LDAU", type |-> "logical"], <<>>,
                    {TTrueFalse, TTrueFalseLow, TTrueJunk}, 1, 1, FALSE),
     parameters |-> Elem("parameters", NoAttrs, <<"pLWAVE">>, {}, 1, 1, FALSE),
     pLWAVE |-> Elem("i", [name |-> "LWAVE", type |-> "logical"], <<>>,
                     {TTrue, TTrueLow, TFalse, TFalseLow, TJunk}, 1, 1, FALSE)]

InitLogical == InitWith(GLogical, {Report}, {<<>>})

NextLogical == StartElement(GLogical) \/ Characters(GLogical, 1) \/ EndElement(GLogical, 1) \/ EndDocument

SpecLogical == InitLogical /\ [][NextLogical]_vars

\* The parser delivers the end of a leaf with this tag that is declared
\* logical
EndsLogical(tag) ==
    /\ Ends(tag)
    /\ "type" \in DOMAIN Last(open).attrs
    /\ Last(open).attrs["type"] = "logical"

\* The tokens of the text of the leaf
LeafTokens == SplitWS(Strip(Last(open).text))

IsMarker(tok) == tok \in {<<"T">>, <<"t">>, <<"F">>, <<"f">>}

\* What the leaf that closes has stored for its parameter
Stored == h'[Table][Last(open).attrs["name"]]

\* C19: a text declared logical gives true for T or t and false for F or f,
\* as a scalar and token by token as a list.
C19_LogicalAnyCase ==
    [][/\ EndsLogical("i") /\ IsMarker(LeafTokens[1]) =>
             /\ h'.error = "None"
             /\ Stored = [bool |-> LeafTokens[1] \in {<<"T">>, <<"t">>}]
       /\ EndsLogical("v") /\ (\A k \in 1..Len(LeafTokens) : IsMarker(LeafTokens[k])) =>
             /\ h'.error = "None"
             /\ Stored = [bools |-> [k \in 1..Len(LeafTokens) |-> LeafTokens[k] \in {<<"T">>, <<"t">>}]]]_vars

\* C20: a text declared logical that holds a token that is none of T, t, F, f
\* fails, and nothing is stored for its parameter.
C20_LogicalJunkFails ==
    [][(EndsLogical("i") \/ EndsLogical("v")) /\ (\E k \in 1..Len(LeafTokens) : ~IsMarker(LeafTokens[k])) =>
         /\ h'.error # "None"
         /\ h'.incar = h.incar
         /\ h'.parameters = h.parameters]_vars

(***************************************************************************)
(* Reports whose texts come in fragments, with an incar section before and *)
(* after the list of atom types                                            *)
(***************************************************************************)
MaxFragments == 2

TOne == <<"1">>
TTwo == <<"2">>

GOrder ==
    [modeling |-> Elem("modeling", NoAttrs, <<"incar", "atomtypes", "incarLate">>, {}, 1, 1, TRUE),
     incar |-> Elem("incar", NoAttrs, <<"iNSW", "vMAGMOM">>, {}, 1, 1, FALSE),
     iNSW |-> Elem("i", [name |-> "NSW", type |-> "int"], <<>>, {TOne, TTwo}, 1, 1, FALSE),
     vMAGMOM |-> Elem("v", [name |-> "MAGMOM"], <<>>, {TOne, T2}, 1, 1, FALSE),
     atomtypes |-> Elem("array", [name |-> "atomtypes"], <<"typeset">>, {}, 1, 1, TRUE),
     typeset |-> Elem("set", NoAttrs, <<>>, {}, 1, 1, TRUE),
     incarLate |-> Elem("incar", NoAttrs, <<"iLate">>, {}, 1, 1, FALSE),
     iLate |-> Elem("i", [name |-> "NSW", type |-> "int"], <<>>, {TOne, TTwo}, 1, 1, TRUE)]

InitOrder == InitWith(GOrder, {Report}, {<<>>})

NextOrder == StartElement(GOrder) \/ Characters(GOrder, MaxFragments) \/ EndElement(GOrder, 1) \/ EndDocument

SpecOrder == InitOrder /\ [][NextOrder]_vars

\* The parser delivers a fragment of text
Fragment == open # <<>> /\ Len(open') = Len(open) /\ Last(open').frags = Last(open).frags + 1

\* The text the parser has delivered for the leaf that is about to close
LeafText == Last(open).text

\* C21: the text a leaf is decoded from is all the fragments delivered between
\* its start and its end, joined in the order they came: the number stored for
\* a scalar, and the numbers stored for a list, are those of the joined text;
\* a fragment alone changes nothing that is handed over after the parse
\* (stated for the leaves that are decoded at their own end, the scalars and
\* the lists of an incar section).
C21_WholeTextDecoded ==
    [][/\ (Ends("i") \/ Ends("v")) /\ h.read_val => h.val = LeafText
       /\ Closes("i") /\ h.read_val =>
             h'.incar[Last(open).attrs["name"]] = [int |-> IntVal(Strip(LeafText))]
       /\ Closes("v") /\ h.read_val =>
             h'.incar[Last(open).attrs["name"]] = [floats |-> Floats(SplitWS(Strip(LeafText)))]
       /\ Fragment => \A k \in supported_properties : h'[k] = h[k]]_vars

\* The scalar 12 and the list 1, 2 have been stored, each from two fragments
C21_Witness ==
    /\ DOMAIN h.incar = {"NSW", "MAGMOM"}
    /\ h.incar["NSW"] = [int |-> 12]
    /\ h.incar["MAGMOM"] = [floats |-> <<10, 20>>]

\* C22: what the end of a leaf does depends only on the elements that are open:
\* a scalar that closes inside an incar section with a text that is a whole
\* number is stored in the table of that section, before and after the list of
\* atom types.
C22_DispatchByContextOnly ==
    [][Ends("i") /\ open[Len(open) - 1].tag = "incar" /\ IntOk(Strip(LeafText)) =>
         /\ h'.error = "None"
         /\ Last(open).attrs["name"] \in DOMAIN h'.incar
         /\ h'.incar[Last(open).attrs["name"]] = [int |-> IntVal(Strip(LeafText))]]_vars

(***************************************************************************)
(* Claims about the two tables of parameters                               *)
(***************************************************************************)
\* C23: a scalar or a list that closes inside the incar section changes only
\* the table of the incar section, and one that closes inside the parameters
\* section changes only the table of the parameters section; when the handler
\* takes it without raising, the table of its section holds its parameter.
C23_OwnTableOnly ==
    [][(Ends("i") \/ Ends("v")) =>
         /\ Table = "incar" => h'.parameters = h.parameters
         /\ Table = "parameters" => h'.incar = h.incar
         /\ h'.error = "None" => LeafName \in DOMAIN h'[Table]]_vars

\* Leaves of both sections have closed, and a parameter of the parameters
\* section is not in the table of the incar section
C23_Witness ==
    /\ "NSW" \in DOMAIN h.incar
    /\ "MAGMOM" \in DOMAIN h.parameters
    /\ "NSW" \in DOMAIN h.parameters
    /\ "MAGMOM" \notin DOMAIN h.incar

(***************************************************************************)
(* Reports with an eigenvalues section: sets labelled with a spin that     *)
(* hold sets labelled with a kpoint; a labelled set outside of any section *)
(* and the partial part of a dos section come before it                    *)
(***************************************************************************)
MaxBands == 2
MaxEigenRows == 3

TPairB == <<"3", " ", "4">>

GEigen ==
    [modeling |-> Elem("modeling", NoAttrs, <<"atomtypes", "loose", "dos", "eigenvalues">>, {}, 1, 1, TRUE),
     atomtypes |-> Elem("array", [name |-> "atomtypes"], <<"typeset">>, {}, 1, 1, TRUE),
     typeset |-> Elem("set", NoAttrs, <<>>, {}, 1, 1, TRUE),
     loose |-> Elem("set", [comment |-> "spin 2"], <<>>, {}, 1, 1, FALSE),
     dos |-> Elem("dos", NoAttrs, <<"partial">>, {}, 1, 1, FALSE),
     partial |-> Elem("partial", NoAttrs, <<"pset">>, {}, 1, 1, TRUE),
     pset |-> Elem("set", NoAttrs, <<"ion1">>, {}, 1, 1, TRUE),
     ion1 |-> Elem("set", [comment |-> "ion 1"], <<"pspin1">>, {}, 1, 1, TRUE),
     pspin1 |-> Elem("set", [comment |-> "spin 1"], <<"pr">>, {}, 1, 1, TRUE),
     pr |-> Elem("r", NoAttrs, <<>>, {TRowA}, 1, 1, TRUE),
     eigenvalues |-> Elem("eigenvalues", NoAttrs, <<"earray">>, {}, 1, 1, TRUE),
     earray |-> Elem("array", NoAttrs, <<"eset">>, {}, 1, 1, TRUE),
     eset |-> Elem("set", NoAttrs, <<"spin1", "spin2", "spin3">>, {}, 1, 1, TRUE),
     spin1 |-> Elem("set", [comment |-> "spin 1"], <<"kpoint1", "kpoint2">>, {}, 1, 1, TRUE),
     spin2 |-> Elem("set", [comment |-> "spin 2"], <<"kpoint1", "kpoint2">>, {}, 1, 1, FALSE),
     spin3 |-> Elem("set", [comment |-> "spin 3"], <<"kpoint1">>, {}, 1, 1, FALSE),
     kpoint1 |-> Elem("set", [comment |-> "kpoint 1"], <<"r">>, {}, 1, 3, TRUE),
     kpoint2 |-> Elem("set", [comment |-> "kpoint 2"], <<"r">>, {}, 1, 1, FALSE),
     r |-> Elem("r", NoAttrs, <<>>, {TPair, TPairB}, MaxBands, MaxEigenRows, TRUE)]

InitEigen == InitWith(GEigen, {Report}, {<<>>})

NextEigen == StartElement(GEigen) \/ Characters(GEigen, 1) \/ EndElement(GEigen, 1) \/ EndDocument

SpecEigen == InitEigen /\ [][NextEigen]_vars

(***************************************************************************)
(* Claims about the context of open tags                                   *)
(***************************************************************************)
\* The parser delivers the start of an element
Starts == Len(open') = Len(open) + 1

\* The value that the attributes of an element give for its tag
Recorded(attrs) ==
    IF "name" \in DOMAIN attrs THEN attrs["name"]
    ELSE IF "comment" \in DOMAIN attrs THEN attrs["comment"]
    ELSE "True"

\* C24 as stated: at the start of every element, the context holds for its tag
\* the value of its name attribute, or of its comment attribute, if it has
\* one, and the plain true otherwise.
C24_NameOrCommentRecorded ==
    [][Starts => h'.state[Last(open').tag] = Recorded(Last(open').attrs)]_vars

\* C24 as amended: at the start of every element, the context holds for its
\* tag the value of its name attribute if it has one; the value of its comment
\* attribute if it is a set that starts after the input has been read, inside
\* an eigenvalues or a dos section; and the plain true otherwise.
C24_CommentOnlyInSections ==
    [][Starts =>
         LET tag == Last(open').tag
             attrs == Last(open').attrs
         IN  h'.state[tag] =
                IF tag = "set" /\ "comment" \in DOMAIN attrs /\ h.input_read /\ (h.read_eigen \/ h.read_dos)
                THEN attrs["comment"]
                ELSE IF "name" \in DOMAIN attrs THEN attrs["name"] ELSE "True"]_vars

\* A labelled set has started outside of the sections, and the label of a set
\* of the eigenvalues section is in the context
C24_Witness ==
    /\ count["loose"] = 1
    /\ h.state["set"] = "kpoint 1"

\* The innermost element with this tag that stays open when the innermost
\* element closes
Enclosing(tag) ==
    open[CHOOSE k \in 1..(Len(open) - 1) :
           /\ open[k].tag = tag
           /\ \A j \in (k + 1)..(Len(open) - 1) : open[j].tag # tag]

\* C25: when an element closes inside an open element with the same tag and
\* the handler takes it without raising, the context still holds for the tag
\* the value recorded for the enclosing element.
C25_ContextIsAStack ==
    [][/\ open # <<>>
       /\ Closes(Last(open).tag)
       /\ \E k \in 1..(Len(open) - 1) : open[k].tag = Last(open).tag
       => h'.state[Last(open).tag] = Recorded(Enclosing(Last(open).tag).attrs)]_vars

(***************************************************************************)
(* Claims about the eigenvalues section                                    *)
(***************************************************************************)
\* The parser delivers the end of a set labelled with a kpoint, inside the
\* eigenvalues section, and the handler takes it without raising
ClosesKpointSet ==
    /\ Closes("set")
    /\ seen.label \in {"kpoint 1", "kpoint 2"}
    /\ \E k \in 1..Len(open) : open[k].tag = "eigenvalues"

\* The number in the label of the set that closes
KpointIndex == IF seen.label = "kpoint 1" THEN 1 ELSE 2

\* The label of the set that holds the set that closes
SpinLabel == open[Len(open) - 1].attrs["comment"]

\* C27: when a set labelled with a kpoint closes in the eigenvalues section,
\* the rows closed since the start of that set, and no other row, are stored
\* under the kpoint of its label and the spin of the set that holds it (a holding
\* set labelled neither spin 1 nor spin 2 is left to C28), and no row is left
\* in the buffer; outside of the sets that hold rows the buffer is empty.
C27_RowsOfTheSetStored ==
    [][/\ ClosesKpointSet =>
             /\ h'.raw_data = <<>>
             /\ h.raw_data = seen.rows
             /\ SpinLabel = "spin 1" => h'.eigenvalues[<<KpointIndex, "up">>] = seen.rows
             /\ SpinLabel = "spin 2" => h'.eigenvalues[<<KpointIndex, "down">>] = seen.rows
       /\ Starts /\ Last(open').tag = "set" => h.raw_data = <<>>]_vars

\* Rows of the partial dos have closed, and two kpoints of one spin hold
\* different rows
C27_Witness ==
    /\ count["pr"] = 1
    /\ DOMAIN h.eigenvalues = {<<1, "up">>, <<2, "up">>}
    /\ h.eigenvalues[<<1, "up">>] = <<<<10, 20>>, <<30, 40>>>>
    /\ h.eigenvalues[<<2, "up">>] = <<<<30, 40>>>>

\* C28: the set that holds a kpoint set stands for the spin up exactly when
\* its label is spin 1 and for the spin down exactly when its label is spin 2,
\* and the kpoint is the number of the label of the kpoint set: the rows are
\* stored under that kpoint and spin, and the rows of a set with another spin
\* label are stored neither under up nor under down.
C28_SpinByLabel ==
    [][ClosesKpointSet =>
         /\ SpinLabel = "spin 1" => h'.eigenvalues = Put(h.eigenvalues, <<KpointIndex, "up">>, seen.rows)
         /\ SpinLabel = "spin 2" => h'.eigenvalues = Put(h.eigenvalues, <<KpointIndex, "down">>, seen.rows)
         /\ SpinLabel \notin {"spin 1", "spin 2"} =>
               \A key \in DOMAIN h'.eigenvalues :
                  key[2] \in {"up", "down"} => key \in DOMAIN h.eigenvalues /\ h'.eigenvalues[key] = h.eigenvalues[key]]_vars

(***************************************************************************)
(* Reports that are not balanced                                           *)
(***************************************************************************)
InitBroken == InitWith(GLogical, {Report}, {<<>>})

NextBroken ==
    \/ StartElement(GLogical)
    \/ Characters(GLogical, 1)
    \/ EndElement(GLogical, 1)
    \/ EndDocument
    \/ Mismatch
    \/ Truncated

SpecBroken == InitBroken /\ [][NextBroken]_vars

MaxPdosAtoms == 2
MaxPdosRows == 2

GPdos ==
    [modeling |-> Elem("modeling", NoAttrs, <<"atoms", "atomtypes", "dos">>, {}, 1, 1, TRUE),
     atoms |-> Elem("array", [name |-> "atoms"], <<"atomset">>, {}, 1, 1, TRUE),
     atomset |-> Elem("set", NoAttrs, <<"rc">>, {}, 1, 1, TRUE),
     rc |-> Elem("rc", NoAttrs, <<"c1", "c2">>, {}, MaxPdosAtoms, MaxPdosAtoms, TRUE),
     c1 |-> Elem("c", NoAttrs, <<>>, {TFe}, 1, MaxPdosAtoms, TRUE),
     c2 |-> Elem("c", NoAttrs, <<>>, {TFe}, 1, MaxPdosAtoms, TRUE),
     atomtypes |-> Elem("array", [name |-> "atomtypes"], <<"typeset">>, {}, 1, 1, TRUE),
     typeset |-> Elem("set", NoAttrs, <<>>, {}, 1, 1, TRUE),
     dos |-> Elem("dos", NoAttrs, <<"partial">>, {}, 1, 1, TRUE),
     partial |-> Elem("partial", NoAttrs, <<"parray">>, {}, 1, 1, TRUE),
     parray |-> Elem("array", NoAttrs, <<"pset">>, {}, 1, 1, TRUE),
     pset |-> Elem("set", NoAttrs, <<"ion1", "ion2">>, {}, 1, 1, TRUE),
     ion1 |-> Elem("set", [comment |-> "ion 1"], <<"pup", "pdown">>, {}, 1, 1, TRUE),
     ion2 |-> Elem("set", [comment |-> "ion 2"], <<"pup", "pdown">>, {}, 1, 1, FALSE),
     pup |-> Elem("set", [comment |-> "spin 1"], <<"pr">>, {}, 1, 2, FALSE),
     pdown |-> Elem("set", [comment |-> "spin 2"], <<"pr">>, {}, 1, 2, FALSE),
     pr |-> Elem("r", NoAttrs, <<>>, {TRowA, TRowB}, MaxPdosRows, 2 * MaxPdosRows, TRUE)]

InitPdos == InitWith(GPdos, {Report}, {<<>>})

NextPdos == StartElement(GPdos) \/ Characters(GPdos, 1) \/ EndElement(GPdos, 1) \/ EndDocument

SpecPdos == InitPdos /\ [][NextPdos]_vars

(***************************************************************************)
(* Claims about the partial part of the dos section                        *)
(***************************************************************************)
\* The parser delivers the end of a set of the partial part that is labelled
\* with a spin, and the handler takes it without raising
ClosesPartialSpinSet ==
    /\ Closes("set")
    /\ seen.label \in {"spin 1", "spin 2"}
    /\ \E k \in 1..Len(open) : open[k].tag = "partial"

\* The number in the label of the set that holds the set that closes
IonIndex == IF open[Len(open) - 1].attrs["comment"] = "ion 1" THEN 1 ELSE 2

\* The orbital columns of a row: the numbers after its energy
OrbitalColumns(row) == Len(row) - 1

\* C30: when a spin set of the partial part closes, the vector stored for the
\* ion of the holding set, the orbital i and the spin of the label is the
\* column i after the energy of the rows closed since the start of that set,
\* for each orbital column, and no row is left in the buffer.
C30_TailColumnsStored ==
    [][ClosesPartialSpinSet =>
         /\ h'.raw_data = <<>>
         /\ seen.rows # <<>>
         /\ \A i \in 0..(OrbitalColumns(seen.rows[1]) - 1) :
               /\ <<IonIndex, i, SpinOf(seen.label)>> \in DOMAIN h'.pdos.dict
               /\ h'.pdos.dict[<<IonIndex, i, SpinOf(seen.label)>>] = Column(seen.rows, i + 2)
         /\ \A key \in DOMAIN h'.pdos.dict :
               key[1] # IonIndex \/ key[3] # SpinOf(seen.label) =>
                  key \in DOMAIN h.pdos.dict /\ h'.pdos.dict[key] = h.pdos.dict[key]]_vars

\* Two rows that differ have been stored for the second orbital of the spin
\* down of ion 2
C30_Witness ==
    /\ DOMAIN h.pdos = {"dict"}
    /\ <<2, 1, "down">> \in DOMAIN h.pdos.dict
    /\ h.pdos.dict[<<2, 1, "down">>] = <<30, 70>>

\* C29: when the partial part closes and the handler takes it without raising,
\* the projected dos holds, for each atomic symbol in order, one entry for each
\* orbital column in order; the entry holds the vector collected for the spin
\* up, and a vector for the spin down exactly when one was collected.  When
\* the vector of the spin up of an atom and an orbital was not collected, the
\* parse fails.
C29_EntriesPerAtomAndOrbital ==
    [][/\ Ends("partial") /\ h.atomic_symbols # <<>> /\ DOMAIN h.pdos.dict = {} => h'.error # "None"
       /\ Ends("partial") /\ h.norbitals > 0 =>
         LET N == Len(h.atomic_symbols)
             collected == DOMAIN h.pdos.dict
         IN  /\ h'.error = "None" =>
                   /\ DOMAIN h'.pdos = {"list"}
                   /\ Len(h'.pdos.list) = N
                   /\ \A a \in 1..N :
                         /\ Len(h'.pdos.list[a]) = h.norbitals
                         /\ \A o \in 1..h.norbitals :
                               LET entry == h'.pdos.list[a][o]
                               IN  /\ entry.orbital = o - 1
                                   /\ entry.densities["up"] = h.pdos.dict[<<a, o - 1, "up">>]
                                   /\ "down" \in DOMAIN entry.densities <=> <<a, o - 1, "down">> \in collected
                                   /\ <<a, o - 1, "down">> \in collected =>
                                         entry.densities["down"] = h.pdos.dict[<<a, o - 1, "down">>]
             /\ (\E a \in 1..N, o \in 0..(h.norbitals - 1) : <<a, o, "up">> \notin collected) =>
                   h'.error # "None"]_vars

\* The partial part has closed for two atoms: both spins were collected for
\* the first, the spin up alone for the second
C29_Witness ==
    /\ DOMAIN h.pdos = {"list"}
    /\ Len(h.pdos.list) = 2
    /\ DOMAIN h.pdos.list[1][1].densities = {"up", "down"}
    /\ DOMAIN h.pdos.list[2][1].densities = {"up"}

(***************************************************************************)
(* Claims about failures and about the text buffers                        *)
(***************************************************************************)
\* C32: once an event has failed, the parser delivers nothing more to the
\* handler and no attribute is handed over: the handler stays as the failure
\* left it and the result stays absent.
C32_FailureGivesNoResult ==
    [][h.error # "None" => h' = h /\ result = <<>> /\ result' = <<>>]_vars

\* An event has failed after the symbols of the atoms had been read
C32_Witness ==
    /\ h.error # "None"
    /\ h.atomic_symbols # <<>>
    /\ result = <<>>

\* C38: a fragment of text that arrives while the innermost open element is
\* no v leaf is written neither to the buffer of the lattice nor to the
\* buffer of the positions, forces and stress.
C38_BuffersOnlyInsideV ==
    [][Fragment /\ Last(open).tag # "v" => h'.posstr = h.posstr /\ h'.latticestr = h.latticestr]_vars

(***************************************************************************)
(* Reports that go on with input sections after the list of atom types:    *)
(* a generator, an incar, a parameters and a kpoints section, a list of    *)
(* atoms and a second list of atom types                                   *)
(***************************************************************************)
TVersion == <<"5", ".", "2">>
TMesh == <<"2", " ", "2", " ", "2">>

GLate ==
    [modeling |-> Elem("modeling", NoAttrs,
                       <<"incar", "atomtypes", "generator", "incarLate", "parametersLate", "kpointsLate",
                         "atomsLate", "typesLate">>, {}, 1, 1, TRUE),
     incar |-> Elem("incar", NoAttrs, <<"iNSW">>, {}, 1, 1, FALSE),
     iNSW |-> Elem("i", [name |-> "NSW", type |-> "int"], <<>>, {TOne}, 1, 1, TRUE),
     atomtypes |-> Elem("array", [name |-> "atomtypes"], <<"typeset">>, {}, 1, 1, TRUE),
     typeset |-> Elem("set", NoAttrs, <<>>, {}, 1, 1, TRUE),
     generator |-> Elem("generator", NoAttrs, <<"iVersion">>, {}, 1, 1, FALSE),
     iVersion |-> Elem("i", [name |-> "version"], <<>>, {TVersion}, 1, 1, TRUE),
     incarLate |-> Elem("incar", NoAttrs, <<"iLate">>, {}, 1, 1, FALSE),
     iLate |-> Elem("i", [name |-> "NSW", type |-> "int"], <<>>, {TTwo}, 1, 1, TRUE),
     parametersLate |-> Elem("parameters", NoAttrs, <<"pLate">>, {}, 1, 1, FALSE),
     pLate |-> Elem("i", [name |-> "NSW", type |-> "int"], <<>>, {TTwo}, 1, 1, TRUE),
     kpointsLate |-> Elem("kpoints", NoAttrs, <<"generation">>, {}, 1, 1, FALSE),
     generation |-> Elem("generation", [param |-> "Monkhorst"], <<"vDivisions">>, {}, 1, 1, TRUE),
     vDivisions |-> Elem("v", [name |-> "divisions", type |-> "int"], <<>>, {TMesh}, 1, 1, TRUE),
     atomsLate |-> Elem("array", [name |-> "atoms"], <<"lateset">>, {}, 1, 1, FALSE),
     lateset |-> Elem("set", NoAttrs, <<"cLate">>, {}, 1, 1, TRUE),
     cLate |-> Elem("c", NoAttrs, <<>>, {TO}, 2, 2, TRUE),
     typesLate |-> Elem("array", [name |-> "atomtypes"], <<"typesetLate">>, {}, 1, 1, FALSE),
     typesetLate |-> Elem("set", NoAttrs, <<"cType">>, {}, 1, 1, TRUE),
     cType |-> Elem("c", NoAttrs, <<>>, {TFe}, 5, 5, TRUE)]

InitLate == InitWith(GLate, {Report}, {<<>>})

NextLate == StartElement(GLate) \/ Characters(GLate, 1) \/ EndElement(GLate, 1) \/ EndDocument

SpecLate == InitLate /\ [][NextLate]_vars

\* C37: once the list of atom types has closed, no event changes the incar
\* table, the parameters table, the k-points, the symbols of the atoms, the
\* symbols of the atom types or the version of the program.
C37_InputFrozen ==
    [][h.input_read =>
         /\ h'.incar = h.incar
         /\ h'.parameters = h.parameters
         /\ h'.kpoints = h.kpoints
         /\ h'.atomic_symbols = h.atomic_symbols
         /\ h'.potcar_symbols = h.potcar_symbols
         /\ h'.vasp_version = h.vasp_version]_vars

\* A report with every late section has been read to its end: the tables are
\* those of the sections before the list of atom types
C37_Witness ==
    /\ phase = "done"
    /\ \A k \in {"iVersion", "iLate", "pLate", "vDivisions", "lateset", "typesetLate"} : count[k] = 1
    /\ h.incar = Put(EmptyDict, "NSW", [int |-> 1])
    /\ h.parameters = EmptyDict
    /\ h.kpoints = Kpoints
    /\ h.vasp_version = <<>>

(***************************************************************************)
(* Reports with several eigenvalues sections followed by several dos       *)
(* sections; a later section may hold fewer sets than an earlier one       *)
(***************************************************************************)
MaxSections == 2

GMulti ==
    [modeling |-> Elem("modeling", NoAttrs, <<"atomtypes", "eigenvalues", "dos">>, {}, 1, 1, TRUE),
     atomtypes |-> Elem("array", [name |-> "atomtypes"], <<"typeset">>, {}, 1, 1, TRUE),
     typeset |-> Elem("set", NoAttrs, <<>>, {}, 1, 1, TRUE),
     eigenvalues |-> Elem("eigenvalues", NoAttrs, <<"earray">>, {}, MaxSections, MaxSections, TRUE),
     earray |-> Elem("array", NoAttrs, <<"eset">>, {}, 1, MaxSections, TRUE),
     eset |-> Elem("set", NoAttrs, <<"espin1">>, {}, 1, MaxSections, TRUE),
     espin1 |-> Elem("set", [comment |-> "spin 1"], <<"kpoint1", "kpoint2">>, {}, 1, MaxSections, TRUE),
     kpoint1 |-> Elem("set", [comment |-> "kpoint 1"], <<"r">>, {}, 1, MaxSections, TRUE),
     kpoint2 |-> Elem("set", [comment |-> "kpoint 2"], <<"r">>, {}, 1, MaxSections, FALSE),
     r |-> Elem("r", NoAttrs, <<>>, {TPair, TPairB}, 1, 2 * MaxSections, TRUE),
     dos |-> Elem("dos", NoAttrs, <<"efermi", "total">>, {}, MaxSections, MaxSections, TRUE),
     efermi |-> Elem("i", [name |-> "efermi"], <<>>, {T1, T2}, 1, MaxSections, TRUE),
     total |-> Elem("total", NoAttrs, <<"tarray">>, {}, 1, MaxSections, TRUE),
     tarray |-> Elem("array", NoAttrs, <<"tset">>, {}, 1, MaxSections, TRUE),
     tset |-> Elem("set", NoAttrs, <<"spin1", "spin2">>, {}, 1, MaxSections, TRUE),
     spin1 |-> Elem("set", [comment |-> "spin 1"], <<"r1">>, {}, 1, MaxSections, TRUE),
     r1 |-> Elem("r", NoAttrs, <<>>, {TRowA, TRowB}, 1, MaxSections, TRUE),
     spin2 |-> Elem("set", [comment |-> "spin 2"], <<"r2">>, {}, 1, MaxSections, FALSE),
     r2 |-> Elem("r", NoAttrs, <<>>, {TRowA, TRowB}, 1, MaxSections, TRUE)]

InitMulti == InitWith(GMulti, {Report}, {<<>>})

NextMulti == StartElement(GMulti) \/ Characters(GMulti, 1) \/ EndElement(GMulti, 1) \/ EndDocument

SpecMulti == InitMulti /\ [][NextMulti]_vars

\* The parser delivers the start of an element with this tag
StartsTag(tag) == Starts /\ Last(open').tag = tag

\* The table that the k-point sets closed since the last eigenvalues start
\* make, and the densities that the spin sets closed since the last dos start
\* make (no label comes twice in one section of these reports)
TableOf(sets) ==
    [key \in {<<IF s.comment = "kpoint 1" THEN 1 ELSE 2, "up">> : s \in {sets[k] : k \in 1..Len(sets)}} |->
        (CHOOSE s \in {sets[k] : k \in 1..Len(sets)} : s.comment = (IF key[1] = 1 THEN "kpoint 1" ELSE "kpoint 2")).rows]

DensitiesOf(sets) ==
    [spin \in {SpinOf(s.comment) : s \in {sets[k] : k \in 1..Len(sets)}} |->
        Column((CHOOSE s \in {sets[k] : k \in 1..Len(sets)} : SpinOf(s.comment) = spin).rows, 2)]

\* C31: the parse does not stop at the start of an eigenvalues section: the
\* start is taken without an exception, the events that follow are handled,
\* and what is handed over holds the eigenvalues of the section and the total
\* density of states of the dos section that came after it.
C31_ReadsPastEigenvalues ==
    /\ [][StartsTag("eigenvalues") => h'.error = "None" /\ h'.all_calculations_read /\ h'.read_eigen]_vars
    /\ [](phase = "done" =>
            /\ open = <<>>
            /\ count["dos"] >= 1
            /\ result[1].eigenvalues = TableOf(seen.esets)
            /\ <<1, "up">> \in DOMAIN result[1].eigenvalues
            /\ "up" \in DOMAIN result[1].tdos.densities.dict
            /\ result[1].efermi # <<>>)

\* A report with an eigenvalues section and a dos section after it has been
\* read to its end
C31_Witness ==
    /\ phase = "done"
    /\ count["eigenvalues"] = 1
    /\ count["dos"] = 1
    /\ result[1].eigenvalues = Put(EmptyDict, <<1, "up">>, <<<<30, 40>>>>)
    /\ result[1].tdos.densities.dict["up"] = <<20>>

\* C39: the start of a dos section empties the total, the integrated and the
\* projected density of states and the Fermi level, and the start of an
\* eigenvalues section empties the table of eigenvalues; what is handed over
\* holds the data of the last section of each kind and nothing of an earlier
\* one.
C39_LaterSectionReplaces ==
    /\ [][/\ StartsTag("dos") =>
                /\ h'.tdos = [dict |-> EmptyDict]
                /\ h'.idos = [dict |-> EmptyDict]
                /\ h'.pdos = [dict |-> EmptyDict]
                /\ h'.efermi = <<>>
                /\ h'.dos_energies = <<>>
          /\ StartsTag("eigenvalues") => h'.eigenvalues = EmptyDict]_vars
    /\ [](phase = "done" =>
            /\ result[1].eigenvalues = TableOf(seen.esets)
            /\ result[1].efermi = seen.fermi
            /\ result[1].tdos = Dos(seen.fermi, <<Column(Last(seen.sets).rows, 1)>>, [dict |-> DensitiesOf(seen.sets)])
            /\ result[1].idos = result[1].tdos
            /\ result[1].pdos = [dict |-> EmptyDict])

\* Two sections of each kind have been read; the first of each held two sets,
\* the second one set with other numbers
C39_Witness ==
    /\ phase = "done"
    /\ count["eigenvalues"] = 2
    /\ count["dos"] = 2
    /\ count["kpoint2"] = 1
    /\ count["spin2"] = 1
    /\ Len(seen.esets) = 1
    /\ Len(seen.sets) = 1
    /\ result[1].eigenvalues = Put(EmptyDict, <<1, "up">>, <<<<10, 20>>>>)
    /\ result[1].tdos.densities.dict = Put(EmptyDict, "up", <<40>>)

(***************************************************************************)
(* Reports with a kpoints section: a generation with the mesh, which may   *)
(* be left out, the list of k-points, and the list of weights, which may   *)
(* be left out                                                             *)
(***************************************************************************)
MaxKpts == 2

GKpoints ==
    [modeling |-> Elem("modeling", NoAttrs, <<"kpoints", "atomtypes">>, {}, 1, 1, TRUE),
     kpoints |-> Elem("kpoints", NoAttrs, <<"generation", "kpointlist", "weights">>, {}, 1, 1, TRUE),
     generation |-> Elem("generation", [param |-> "Gamma"], <<"vDivisions">>, {}, 1, 1, FALSE),
     vDivisions |-> Elem("v", [name |-> "divisions", type |-> "int"], <<>>, {TMesh}, 1, 1, TRUE),
     kpointlist |-> Elem("varray", [name |-> "kpointlist"], <<"kv">>, {}, 1, 1, TRUE),
     kv |-> Elem("v", NoAttrs, <<>>, {TRow0, TRow1}, MaxKpts, MaxKpts, TRUE),
     weights |-> Elem("varray", [name |-> "weights"], <<"wv">>, {}, 1, 1, FALSE),
     wv |-> Elem("v", NoAttrs, <<>>, {T1, T2}, MaxKpts, MaxKpts, TRUE),
     atomtypes |-> Elem("array", [name |-> "atomtypes"], <<"typeset">>, {}, 1, 1, TRUE),
     typeset |-> Elem("set", NoAttrs, <<>>, {}, 1, 1, TRUE)]

InitKpoints == InitWith(GKpoints, {Report}, {<<>>})

NextKpoints == StartElement(GKpoints) \/ Characters(GKpoints, 1) \/ EndElement(GKpoints, 1) \/ EndDocument

SpecKpoints == InitKpoints /\ [][NextKpoints]_vars

\* The parser delivers the end of a v leaf of this kind, and the handler takes
\* it without raising
ClosesLeaf(kind) == Closes("v") /\ Last(open).kind = kind

\* C33 as stated: when the kpoints section closes, either the list of
\* k-points is filled or the mesh has been set, and not both.
C33_ExactlyOneRepresentation ==
    [][Closes("kpoints") => (h'.actual_kpoints # <<>>) # (h'.kpoints.kpts # Kpoints.kpts)]_vars

\* C33: the two representations are kept side by side.  Each v leaf of the
\* list of k-points appends its numbers to the list and each v leaf of the
\* weights appends its number to the weights, and neither touches the mesh;
\* the leaf named divisions sets the mesh to its integers and touches neither
\* list.  When the kpoints section closes, the list and the weights hold one
\* entry for each of their leaves, and the mesh is the default 1, 1, 1 unless
\* a divisions leaf has set it.
C33_BothRepresentationsKept ==
    [][/\ ClosesLeaf("kv") =>
             /\ h'.actual_kpoints = Append(h.actual_kpoints, Floats(LeafTokens))
             /\ h'.actual_kpoints_weights = h.actual_kpoints_weights
             /\ h'.kpoints = h.kpoints
       /\ ClosesLeaf("wv") =>
             /\ h'.actual_kpoints_weights = Append(h.actual_kpoints_weights, FloatVal(Last(open).text))
             /\ h'.actual_kpoints = h.actual_kpoints
             /\ h'.kpoints = h.kpoints
       /\ ClosesLeaf("vDivisions") =>
             /\ h'.kpoints.kpts = Ints(LeafTokens)
             /\ h'.actual_kpoints = h.actual_kpoints
             /\ h'.actual_kpoints_weights = h.actual_kpoints_weights
       /\ Closes("kpoints") =>
             /\ Len(h'.actual_kpoints) = count["kv"]
             /\ Len(h'.actual_kpoints_weights) = count["wv"]
             /\ count["vDivisions"] = 0 => h'.kpoints.kpts = Kpoints.kpts
             /\ count["vDivisions"] = 1 => h'.kpoints.kpts = <<2, 2, 2>>]_vars

\* A section with a mesh, two k-points and two weights has been read, and
\* both representations are handed over
C33_Witness ==
    /\ phase = "done"
    /\ result[1].kpoints.kpts = <<2, 2, 2>>
    /\ result[1].kpoints.l3_lattice = "Gamma"
    /\ result[1].actual_kpoints = <<<<0, 0, 0>>, <<10, 0, 0>>>>
    /\ result[1].actual_kpoints_weights = <<10, 20>>

(***************************************************************************)
(* The smallest whole report: one parameter, a mesh, two atoms, one        *)
(* structure (before the calculation section or inside it), one            *)
(* calculation section; a generator section may come first                 *)
(***************************************************************************)
TTen == <<"1", "0">>
TEnergy == <<"-", "1", "0", ".", "5">>
TRowY == <<" ", "0", " ", "1", " ", "0">>
TRowZ == <<" ", "0", " ", "0", " ", "1">>

GMinimal ==
    [modeling |-> Elem("modeling", NoAttrs,
                       <<"generator", "incar", "kpoints", "atoms", "atomtypes", "structure", "calculation">>,
                       {}, 1, 1, TRUE),
     generator |-> Elem("generator", NoAttrs, <<"iVersion">>, {}, 1, 1, FALSE),
     iVersion |-> Elem("i", [name |-> "version"], <<>>, {TVersion}, 1, 1, TRUE),
     incar |-> Elem("incar", NoAttrs, <<"iNSW">>, {}, 1, 1, TRUE),
     iNSW |-> Elem("i", [name |-> "NSW", type |-> "int"], <<>>, {TTen}, 1, 1, TRUE),
     kpoints |-> Elem("kpoints", NoAttrs, <<"generation">>, {}, 1, 1, TRUE),
     generation |-> Elem("generation", [param |-> "Gamma"], <<"vDivisions">>, {}, 1, 1, TRUE),
     vDivisions |-> Elem("v", [name |-> "divisions", type |-> "int"], <<>>, {TMesh}, 1, 1, TRUE),
     atoms |-> Elem("array", [name |-> "atoms"], <<"atomset">>, {}, 1, 1, TRUE),
     atomset |-> Elem("set", NoAttrs, <<"rcA", "rcB">>, {}, 1, 1, TRUE),
     rcA |-> Elem("rc", NoAttrs, <<"c1", "c2">>, {}, 1, 1, TRUE),
     rcB |-> Elem("rc", NoAttrs, <<"c1", "c2">>, {}, 1, 1, TRUE),
     c1 |-> Elem("c", NoAttrs, <<>>, {TFe, TO}, 1, 2, TRUE),
     c2 |-> Elem("c", NoAttrs, <<>>, {T1}, 1, 2, TRUE),
     atomtypes |-> Elem("array", [name |-> "atomtypes"], <<"typeset">>, {}, 1, 1, TRUE),
     typeset |-> Elem("set", NoAttrs, <<>>, {}, 1, 1, TRUE),
     structure |-> Elem("structure", NoAttrs, <<"basis", "positions">>, {}, 1, 1, FALSE),
     basis |-> Elem("varray", [name |-> "basis"], <<"lv1", "lv2", "lv3">>, {}, 1, 1, TRUE),
     lv1 |-> Elem("v", NoAttrs, <<>>, {TRow1}, 1, 1, TRUE),
     lv2 |-> Elem("v", NoAttrs, <<>>, {TRowY}, 1, 1, TRUE),
     lv3 |-> Elem("v", NoAttrs, <<>>, {TRowZ}, 1, 1, TRUE),
     positions |-> Elem("varray", [name |-> "positions"], <<"pvA", "pvB">>, {}, 1, 1, TRUE),
     pvA |-> Elem("v", NoAttrs, <<>>, {TRow0}, 1, 1, TRUE),
     pvB |-> Elem("v", NoAttrs, <<>>, {TRow0, TRow1}, 1, 1, TRUE),
     calculation |-> Elem("calculation", NoAttrs, <<"scstep", "structure", "forces", "stress">>, {}, 1, 1, TRUE),
     scstep |-> Elem("scstep", NoAttrs, <<"e">>, {}, 1, 1, TRUE),
     e |-> Elem("i", [name |-> "e_wo_entrp"], <<>>, {TEnergy}, 1, 1, TRUE),
     forces |-> Elem("varray", [name |-> "forces"], <<"fvA", "fvB">>, {}, 1, 1, TRUE),
     fvA |-> Elem("v", NoAttrs, <<>>, {TRow0}, 1, 1, TRUE),
     fvB |-> Elem("v", NoAttrs, <<>>, {TRow0}, 1, 1, TRUE),
     stress |-> Elem("varray", [name |-> "stress"], <<"sv1", "sv2", "sv3">>, {}, 1, 1, TRUE),
     sv1 |-> Elem("v", NoAttrs, <<>>, {TRow1}, 1, 1, TRUE),
     sv2 |-> Elem("v", NoAttrs, <<>>, {TRowY}, 1, 1, TRUE),
     sv3 |-> Elem("v", NoAttrs, <<>>, {TRowZ}, 1, 1, TRUE)]

InitMinimal == InitWith(GMinimal, {Report}, {<<>>})

NextMinimal == StartElement(GMinimal) \/ Characters(GMinimal, 1) \/ EndElement(GMinimal, 1) \/ EndDocument

SpecMinimal == InitMinimal /\ [][NextMinimal]_vars

ZeroForces == <<<<0, 0, 0>>, <<0, 0, 0>>>>

Identity == <<<<10, 0, 0>>, <<0, 10, 0>>, <<0, 0, 10>>>>

\* C35: the smallest whole report (NSW 10 declared int, mesh 2 2 2, two atoms,
\* one structure, one calculation section with one scstep of energy -10.5,
\* two rows of zero forces and the identity as stress) hands over NSW = 10 in
\* the incar table, one structure with a 2 x 3 matrix of coordinates, and one
\* ionic step whose only electronic step has e_wo_entrp = -10.5 and whose
\* forces are all zero.
C35_MinimalReport ==
    phase = "done" =>
        /\ result[1].incar = Put(EmptyDict, "NSW", [int |-> 10])
        /\ result[1].kpoints.kpts = <<2, 2, 2>>
        /\ Len(result[1].atomic_symbols) = 2
        /\ Len(result[1].structures) = 1
        /\ Len(result[1].structures[1].coords) = 2
        /\ \A k \in 1..2 : Len(result[1].structures[1].coords[k]) = 3
        /\ result[1].structures[1].lattice = Identity
        /\ Len(result[1].ionic_steps) = 1
        /\ result[1].ionic_steps[1].electronic_steps = <<Put(EmptyDict, "e_wo_entrp", -105)>>
        /\ result[1].ionic_steps[1].forces = ZeroForces
        /\ result[1].ionic_steps[1].stress = Identity
        /\ result[1].ionic_steps[1].structure = result[1].structures[1]

\* The report has been read to its end
C35_Witness ==
    /\ phase = "done"
    /\ h.error = "None"
    /\ count["calculation"] = 1
    /\ count["structure"] = 1
    /\ result[1].ionic_steps[1].electronic_steps[1]["e_wo_entrp"] = -105
    /\ result[1].incar["NSW"] = [int |-> 10]

(***************************************************************************)
(* Incar.diff, lines 367-381.  The two tables are drawn from the tables    *)
(* over a few keys and values; Diff applies diff to them.                  *)
(***************************************************************************)
\* The first loop, lines 370-376
SimilarParam(self, other) ==
    [k1 \in {k \in DOMAIN self : k \in DOMAIN other /\ self[k] = other[k]} |-> self[k1]]

DifferentParam(self, other) ==
    [k1 \in {k \in DOMAIN self : k \notin DOMAIN other \/ self[k] # other[k]} |->
        IF k1 \notin DOMAIN other
        THEN ("INCAR1" :> self[k1]) @@ ("INCAR2" :> [str |-> "Default"])
        ELSE ("INCAR1" :> self[k1]) @@ ("INCAR2" :> other[k1])]

\* The second loop, lines 377-380, over the keys of other that are left: it
\* tests and writes the key k1 that the first loop has ended with
RECURSIVE SecondLoop(_, _, _, _, _)
SecondLoop(self, other, k1, keys, different) ==
    IF keys = {} THEN different
    ELSE LET k2 == CHOOSE k \in keys : TRUE
             d == IF k1 \notin DOMAIN self
                  THEN Put(different, k1, ("INCAR1" :> [str |-> "Default"]) @@ ("INCAR2" :> other[k2]))
                  ELSE different
         IN  SecondLoop(self, other, k1, keys \ {k2}, d)

\* lines 367-381.  With an empty self the first loop binds no k1, and the test
\* of line 379 raises for the first key of other.  The result does not depend
\* on which key the first loop has ended with.
diff(self, other) ==
    LET similar_param == SimilarParam(self, other)
        different_param == DifferentParam(self, other)
        left == {k2 \in DOMAIN other : k2 \notin DOMAIN similar_param /\ k2 \notin DOMAIN different_param}
    IN  IF left # {} /\ DOMAIN self = {} THEN Err("UnboundLocalError")
        ELSE IF DOMAIN self = {} THEN Ok(("Same parameters" :> similar_param) @@ ("Different" :> different_param))
        ELSE LET k1 == CHOOSE k \in DOMAIN self : TRUE
             IN  Ok(("Same parameters" :> similar_param)
                    @@ ("Different" :> SecondLoop(self, other, k1, left, different_param)))

DiffKeys == {"NSW", "ISIF", "ISPIN", "IBRION"}

DiffValues == {[int |-> 1], [int |-> 2]}

\* The tables over DiffKeys
DiffTables ==
    UNION {[keys -> DiffValues] : keys \in SUBSET DiffKeys}

\* No report is parsed
NoParse ==
    /\ h = HandlerInit(Report)
    /\ open = <<>>
    /\ count = <<>>
    /\ phase = "begin"
    /\ listing = <<>>
    /\ result = <<>>
    /\ seen = SeenInit

InitDiff ==
    /\ NoParse
    /\ \E self \in DiffTables, other \in DiffTables :
          env = [kind |-> "diff", self |-> self, other |-> other, out |-> <<>>]

\* incar1.diff(incar2)
Diff ==
    /\ env.kind = "diff"
    /\ env.out = <<>>
    /\ env' = [env EXCEPT !.out = <<diff(env.self, env.other)>>]
    /\ UNCHANGED <<h, open, count, phase, listing, result, seen>>

NextDiff == Diff

SpecDiff == InitDiff /\ [][NextDiff]_vars

\* C40: diff returns, and every key of either table is in exactly one of
\* 'Same parameters' and 'Different': in the first, with the common value,
\* if both tables hold it with equal values; in the second otherwise, with
\* INCAR1 and INCAR2 the two values, 'Default' standing for the value of the
\* table that does not hold the key.
C40_DiffPartitionsKeys ==
    env.kind = "diff" /\ env.out # <<>> =>
        /\ env.out[1].ok
        /\ LET same == env.out[1].value["Same parameters"]
               different == env.out[1].value["Different"]
               self == env.self
               other == env.other
           IN  /\ DOMAIN same \cap DOMAIN different = {}
               /\ DOMAIN same \cup DOMAIN different = DOMAIN self \cup DOMAIN other
               /\ \A k \in DOMAIN same : k \in DOMAIN self /\ k \in DOMAIN other /\ self[k] = other[k] /\ same[k] = self[k]
               /\ \A k \in DOMAIN different :
                     /\ different[k]["INCAR1"] = IF k \in DOMAIN self THEN self[k] ELSE [str |-> "Default"]
                     /\ different[k]["INCAR2"] = IF k \in DOMAIN other THEN other[k] ELSE [str |-> "Default"]

(***************************************************************************)
(* Vacancies, pymatgen/defects/point_defects.py.  A structure is the       *)
(* sequence of its sites, a site [species, frac]; the sites of a structure *)
(* that is given have the fractional coordinates 1, 2, ... (all distinct). *)
(* A site of a supercell has the coordinates <<i, image>>: the image, one  *)
(* of the scaling[1] * scaling[2] * scaling[3] translations, of site i.    *)
(* A list of supercells holds <<sc>> for a supercell and <<>> for None.    *)
(***************************************************************************)
MaxSites == 4

Species == {"Li", "O"}

Scalings == {<<1, 1, 1>>, <<2, 1, 1>>, <<2, 2, 2>>}

PeriodicSite(species, frac) == [species |-> species, frac |-> frac]

\* The elements of a set of numbers, smallest first
RECURSIVE Sorted(_)
Sorted(S) ==
    IF S = {} THEN <<>>
    ELSE LET least == CHOOSE x \in S : \A y \in S : x <= y
         IN  <<least>> \o Sorted(S \ {least})

\* SymmetryFinder(structure).get_symmetrized_structure().equivalent_sites for
\* a structure whose symmetry maps every site i to the sites with the same
\* class[i]: the classes, each a list of sites
EquivalentSites(structure, class) ==
    LET firsts == Sorted({class[i] : i \in 1..Len(structure)})
    IN  [k \in 1..Len(firsts) |->
           LET members == Sorted({i \in 1..Len(structure) : class[i] = firsts[k]})
           IN  [j \in 1..Len(members) |-> structure[members[j]]]]

\* The symmetries a structure may have: each site is given the first site of
\* its class, and the sites of a class hold the same species
Symmetries(structure) ==
    {class \in [1..Len(structure) -> 1..Len(structure)] :
        \A i \in 1..Len(structure) :
           /\ class[i] <= i
           /\ class[class[i]] = class[i]
           /\ structure[class[i]].species = structure[i].species}

\* The translations of a supercell, in the order make_supercell lays them
Images(scaling) ==
    [j \in 1..(scaling[1] * scaling[2] * scaling[3]) |->
        <<(j - 1) % scaling[1], ((j - 1) \div scaling[1]) % scaling[2], (j - 1) \div (scaling[1] * scaling[2])>>]

\* Structure.make_supercell(scaling_matrix): every site with every translation
make_supercell(structure, scaling) ==
    LET images == Images(scaling)
    IN  [k \in 1..(Len(structure) * Len(images)) |->
           LET i == ((k - 1) \div Len(images)) + 1
               j == ((k - 1) % Len(images)) + 1
           IN  PeriodicSite(structure[i].species, <<structure[i].frac, images[j]>>)]

\* Structure.remove(i), i counted from 1 here
Remove(sc, i) == SubSeq(sc, 1, i - 1) \o SubSeq(sc, i + 1, Len(sc))

\* Vacancy.enumerate, lines 57-68
enumerate(equiv_sites) == [k \in 1..Len(equiv_sites) |-> equiv_sites[k][1]]

\* _supercell_with_defect leaving the site in the supercell
supercell_with_defectKeepsSite(structure, scaling_matrix, defect_site) ==
    LET sc == make_supercell(structure, scaling_matrix)
        sc_defect_site == PeriodicSite(defect_site.species, <<defect_site.frac, <<0, 0, 0>>>>)
        found == {i \in 1..Len(sc) : sc[i] = sc_defect_site}
    IN  IF found = {} THEN <<>>
        ELSE <<sc>>

\* Vacancy._supercell_with_defect, lines 70-82: the site with the cartesian
\* coordinates of the defect is the untranslated image of the defect's site;
\* the first site of the supercell that equals it is removed, and without
\* such a site the function returns None (<<>> here, <<sc>> for a supercell)
supercell_with_defect(structure, scaling_matrix, defect_site) ==
    LET sc == make_supercell(structure, scaling_matrix)
        sc_defect_site == PeriodicSite(defect_site.species, <<defect_site.frac, <<0, 0, 0>>>>)
        found == {i \in 1..Len(sc) : sc[i] = sc_defect_site}
    IN  IF found = {} THEN <<>>
        ELSE <<Remove(sc, CHOOSE i \in found : \A j \in found : i <= j)>>

\* Vacancy.supercells_with_defects, lines 84-92
supercells_with_defects(structure, equiv_sites, scaling_matrix) ==
    LET uniq == enumerate(equiv_sites)
    IN  [k \in 1..Len(uniq) |-> supercell_with_defect(structure, scaling_matrix, uniq[k])]

\* VacancyTransformation(supercell_dim).apply_transformation(structure): the
\* supercell without a defect, then the supercells with the vacancies
apply_transformation(structure, equiv_sites, supercell_dim) ==
    <<<<make_supercell(structure, supercell_dim)>>>> \o supercells_with_defects(structure, equiv_sites, supercell_dim)

\* The structures with up to MaxSites sites
Structures ==
    UNION {{[i \in 1..n |-> PeriodicSite(sp[i], i)] : sp \in [1..n -> Species]} : n \in 1..MaxSites}

InitVacancy ==
    /\ NoParse
    /\ \E structure \in Structures, scaling \in Scalings :
          \E class \in Symmetries(structure) :
             env = [kind |-> "vacancy", structure |-> structure, class |-> class, supercell_dim |-> scaling,
                    equiv_sites |-> <<>>, scs |-> <<>>]

\* Vacancy.__init__, lines 43-55
VacancyNew ==
    /\ env.kind = "vacancy"
    /\ env.equiv_sites = <<>>
    /\ env' = [env EXCEPT !.equiv_sites = EquivalentSites(env.structure, env.class)]
    /\ UNCHANGED <<h, open, count, phase, listing, result, seen>>

\* t.apply_transformation(struct) on the vacancy of the structure
ApplyTransformation ==
    /\ env.kind = "vacancy"
    /\ env.equiv_sites # <<>>
    /\ env.scs = <<>>
    /\ env' = [env EXCEPT !.scs = apply_transformation(env.structure, env.equiv_sites, env.supercell_dim)]
    /\ UNCHANGED <<h, open, count, phase, listing, result, seen>>

NextVacancy == VacancyNew \/ ApplyTransformation

SpecVacancy == InitVacancy /\ [][NextVacancy]_vars

\* How many sites of each species a structure holds
Composition(sc) == [sp \in Species |-> Cardinality({k \in 1..Len(sc) : sc[k].species = sp})]

\* The structure of the test: Li, Li, O, O, the two Li equivalent and the two
\* O equivalent, scaled 2 x 2 x 2
IsLi2O2 ==
    /\ env.structure = <<PeriodicSite("Li", 1), PeriodicSite("Li", 2), PeriodicSite("O", 3), PeriodicSite("O", 4)>>
    /\ env.class = <<1, 1, 3, 3>>
    /\ env.supercell_dim = <<2, 2, 2>>

DefaultParams == 1

HeapInit == <<EmptyDict>>

\* Incar.__init__ handing out its default argument as the new table
IncarNewShared(heap) == [heap |-> heap, ref |-> DefaultParams]

\* Incar(), lines 272-279: a new dictionary, updated with the entries of params
IncarNew(heap) == [heap |-> Append(heap, heap[DefaultParams]), ref |-> Len(heap) + 1]

\* VasprunHandler(filename), lines 780-816: every attribute is an object made
\* by this call
HandlerNew(heap, filename) ==
    LET a == IncarNew(heap)
        b == IncarNew(a.heap)
    IN  [heap |-> b.heap,
         handler |-> [HandlerInit(filename) EXCEPT !.incar = [ref |-> a.ref], !.parameters = [ref |-> b.ref]]]

\* The handler with its tables read from the heap
Load(heap, handler) ==
    [handler EXCEPT !.incar = heap[handler.incar.ref], !.parameters = heap[handler.parameters.ref]]

\* The heap after the handler has gone from the values `before` to `after`
Unload(heap, handler, before, after) ==
    LET a == IF after.incar # before.incar THEN [heap EXCEPT ![handler.incar.ref] = after.incar] ELSE heap
    IN  IF after.parameters # before.parameters THEN [a EXCEPT ![handler.parameters.ref] = after.parameters] ELSE a

\* The events of a report
S(name, attrs) == [ev |-> "start", name |-> name, attrs |-> attrs]
T(data) == [ev |-> "chars", data |-> data]
E(name) == [ev |-> "end", name |-> name]

Leaf(tag, attrs, text) == <<S(tag, attrs), T(text), E(tag)>>

TypesSection == <<S("array", [name |-> "atomtypes"]), S("set", NoAttrs), E("set"), E("array")>>

StreamA ==
    <<S("modeling", NoAttrs), S("incar", NoAttrs)>>
    \o Leaf("i", [name |-> "NSW", type |-> "int"], TOne)
    \o Leaf("v", [name |-> "MAGMOM"], TPair)
    \o <<E("incar"), S("parameters", NoAttrs)>>
    \o Leaf("i", [name |-> "NSW", type |-> "int"], TTwo)
    \o <<E("parameters")>> \o TypesSection \o <<E("modeling")>>

StreamB ==
    <<S("modeling", NoAttrs), S("incar", NoAttrs)>>
    \o Leaf("i", [name |-> "ISIF", type |-> "int"], TTwo)
    \o <<E("incar"), S("parameters", NoAttrs)>>
    \o Leaf("i", [name |-> "EDIFF"], TOne)
    \o <<E("parameters"), S("kpoints", NoAttrs), S("generation", [param |-> "Gamma"])>>
    \o Leaf("v", [name |-> "divisions", type |-> "int"], TMesh)
    \o <<E("generation"), E("kpoints")>> \o TypesSection \o <<E("modeling")>>

StreamC ==
    <<S("modeling", NoAttrs), S("parameters", NoAttrs)>>
    \o Leaf("v", [name |-> "MAGMOM"], TPairB)
    \o <<E("parameters")>> \o TypesSection \o <<E("modeling")>>

Streams == {StreamA, StreamB, StreamC}

\* The handler after one event
Handle(hh, e) ==
    IF e.ev = "start" THEN startElement(hh, e.name, e.attrs)
    ELSE IF e.ev = "chars" THEN characters(hh, e.data)
    ELSE endElement(hh, e.name, <<>>)

\* The handler of a parse that runs alone, after the first n events
RECURSIVE RunAlone(_, _, _)
RunAlone(filename, stream, n) ==
    IF n = 0 THEN HandlerInit(filename)
    ELSE LET before == RunAlone(filename, stream, n - 1)
         IN  IF before.error = "None" THEN Handle(before, stream[n]) ELSE before

Parse(filename, stream) == [filename |-> filename, stream |-> stream, at |-> 0, handler |-> <<>>, done |-> FALSE]

InitTwo ==
    /\ NoParse
    /\ \E a \in Streams, b \in Streams :
          /\ a # b
          /\ env = [kind |-> "two", heap |-> HeapInit, inst |-> <<Parse(Report, a), Parse(Bare, b)>>]

\* Vasprun.__init__, line 679: the handler of a parse is made
Construct(i) ==
    /\ env.kind = "two"
    /\ env.inst[i].handler = <<>>
    /\ \E new \in {HandlerNew(env.heap, env.inst[i].filename)} :
          env' = [env EXCEPT !.heap = new.heap, !.inst[i].handler = <<new.handler>>]
    /\ UNCHANGED <<h, open, count, phase, listing, result, seen>>

\* xml.sax.parse, line 681, delivers the next event of a parse to its handler
Deliver(i) ==
    /\ env.kind = "two"
    /\ env.inst[i].handler # <<>>
    /\ env.inst[i].at < Len(env.inst[i].stream)
    /\ \E before \in {Load(env.heap, env.inst[i].handler[1])} :
          /\ before.error = "None"
          /\ \E after \in {Handle(before, env.inst[i].stream[env.inst[i].at + 1])} :
                env' = [env EXCEPT !.heap = Unload(env.heap, env.inst[i].handler[1], before, after),
                                  !.inst[i].at = @ + 1,
                                  !.inst[i].handler = <<[after EXCEPT !.incar = env.inst[i].handler[1].incar,
                                                                     !.parameters = env.inst[i].handler[1].parameters]>>]
    /\ UNCHANGED <<h, open, count, phase, listing, result, seen>>

\* Vasprun.__init__, lines 682-683: the attributes of the handler become the
\* attributes of the Vasprun object (the same objects)
Finish(i) ==
    /\ env.kind = "two"
    /\ env.inst[i].handler # <<>>
    /\ env.inst[i].at = Len(env.inst[i].stream)
    /\ env.inst[i].handler[1].error = "None"
    /\ ~env.inst[i].done
    /\ env' = [env EXCEPT !.inst[i].done = TRUE]
    /\ UNCHANGED <<h, open, count, phase, listing, result, seen>>

NextTwo == \E i \in 1..2 : Construct(i) \/ Deliver(i) \/ Finish(i)

SpecTwo == InitTwo /\ [][NextTwo]_vars

\* What parse i holds now, and what it holds when it runs alone
Held(i) == Load(env.heap, env.inst[i].handler[1])

Alone(i) == RunAlone(env.inst[i].filename, env.inst[i].stream, env.inst[i].at)

\* C34: of two parses of different reports whose events come in any order,
\* each holds after every event what it holds when it runs alone up to that
\* event, in its handler and in the attributes handed over at its end, and
\* the default dictionary of Incar stays empty.
C34_ParsesIndependent ==
    env.kind = "two" =>
        /\ env.heap[DefaultParams] = EmptyDict
        /\ \A i \in 1..2 :
              env.inst[i].handler # <<>> =>
                 /\ Held(i) = Alone(i)
                 /\ env.inst[i].done =>
                       \A k \in supported_properties :
                          Held(i)[k] = RunAlone(env.inst[i].filename, env.inst[i].stream, Len(env.inst[i].stream))[k]

\* Both parses have ended, and their tables differ
C34_Witness ==
    /\ env.kind = "two"
    /\ env.inst[1].done
    /\ env.inst[2].done
    /\ env.inst[1].stream = StreamA
    /\ env.inst[2].stream = StreamB
    /\ Held(1).incar = Put(Put(EmptyDict, "NSW", [int |-> 1]), "MAGMOM", [floats |-> <<10, 20>>])
    /\ Held(2).incar = Put(EmptyDict, "ISIF", [int |-> 2])
    /\ Held(2).kpoints.kpts = <<2, 2, 2>>

====
